---- MODULE Spec2Model ----
(***************************************************************************)
(* Report intake and dispatch pipeline of girotrash.                       *)
(*                                                                         *)
(* The datastore (tables reports, report_media), the three edge functions  *)
(* create-report, submit-to-fcc and receive-reply, the email worker, and   *)
(* the operator page AdminReportDetail are modelled.  Every edge-function invocation is a    *)
(* request slot with a program counter; one action is one stretch of the   *)
(* handler between two awaited I/O calls, so that concurrent requests      *)
(* interleave exactly at the awaits of the source.                         *)
(*                                                                         *)
(* Units: latitudes and longitudes are integers in microdegrees, distances *)
(* are integers in millimetres, times are integers in milliseconds,        *)
(* photo_count is carried in halves (2 * photo_count) so that a fractional *)
(* JSON number can be sent.  Text is a record [tag, len]: what the text is *)
(* and how many characters it has; the text the email worker handles also  *)
(* carries its characters.                                                 *)
(***************************************************************************)
EXTENDS Integers, Sequences, FiniteSets, TLC

(***************************************************************************)
(* Bounds of the model.                                                    *)
(***************************************************************************)
MaxUuid == 2

MaxRateUuid == 12

MaxLifeUuid == 1

MaxDispUuid == 1

\* Reports created in the reply specification.
MaxReplyUuid == 1

\* Reports created in the specification of concurrent admissions.
MaxRaceUuid == 11

\* Reports created in the specification of concurrent dispatches.
MaxDoubleUuid == 1

\* Identifiers drawn in the specification of honeypot requests.
MaxHoneyUuid == 12

\* Reports created in the specifications of the email worker.
MaxMailUuid == 1

\* Leading hex digits that vary in the report identifiers of the reply
\* address specification.
MaxIdDigits == 3

\* Calls of saveLocalReport in the specification of the local list.
MaxSaves == 52

\* The step and the end of the clock of that specification.
LocalTickMs == 60000

MaxLocalNow == 60000

\* Length of the texts given to quoted-printable decoding.
MaxQpLen == 5

\* Upstream calls of the geocode specification.
MaxGeoCalls == 3

\* The step and the end of the clock of the geocode specification.
GeoTickMs == 500

MaxGeoNow == 1000

TickMs == 1200000

MaxNow == 1300000

RateTickMs == 2000000

MaxRateNow == 4100000

(***************************************************************************)
(* Program constants.                                                      *)
(***************************************************************************)
GIRONA_LAT == 41979400

GIRONA_LON == 2821400

SERVICE_RADIUS_M == 5000

MAX_PHOTOS == 5

RATE_LIMIT_PER_HOUR == 10

OneHourMs == 3600000

\* local-reports.ts
MAX_STORED == 50

(***************************************************************************)
(* Values.                                                                 *)
(***************************************************************************)
Str(tag, len) == [tag |-> tag, len |-> len]

NULL == Str("null", 0)

NoId == 0

NoTime == -1

NoCount == -1

JNum(v) == [type |-> "number", v |-> v]

JMissing == [type |-> "undefined", v |-> 0]

Min(x, y) == IF x <= y THEN x ELSE y

(***************************************************************************)
(* Strings of the email worker.  A string is the sequence of the codes of  *)
(* its first characters (chars) and its length (len); the characters after *)
(* chars, if any, are full stops (code 46).  Indices count from 0 as in    *)
(* the source.                                                             *)
(***************************************************************************)
Chars(c, more) == [tag |-> "chars", len |-> Len(c) + more, chars |-> c]

More(t) == t.len - Len(t.chars)

\* t[i], or -1 outside the string.
CharAt(t, i) ==
  IF i < 0 \/ i >= t.len THEN -1
  ELSE IF i < Len(t.chars) THEN t.chars[i + 1]
  ELSE 46

Max(x, y) == IF x >= y THEN x ELSE y

\* The least element of a non-empty set of integers.
First(S) == CHOOSE i \in S : \A j \in S : i <= j

\* t.substring(start, end)
substring(t, start, end) ==
  LET s == Max(0, Min(start, t.len))
      e == Max(0, Min(end, t.len))
      a == Min(s, e)
      b == Max(s, e)
      head == Len(t.chars)
  IN Chars(SubSeq(t.chars, a + 1, Min(b, head)),
           IF b <= head THEN 0 ELSE b - Max(a, head))

\* a + b, for a string a held in full.
Concat(a, b) == Chars(a.chars \o b.chars, More(b))

\* The character a pattern with flag i compares: letters A-Z as a-z.
Lower(c) == IF c \in 65..90 THEN c + 32 ELSE c

\* \s of a regular expression, and the characters trim() removes.
IsSpace(c) ==
  c \in {9, 10, 11, 12, 13, 32, 160, 5760, 8232, 8233, 8239, 8287, 12288, 65279}
        \cup (8192..8202)

\* [0-9A-Fa-f]
IsHex(c) == c \in (48..57) \cup (65..70) \cup (97..102)

\* parseInt of one hexadecimal digit
HexVal(c) == IF c \in 48..57 THEN c - 48 ELSE IF c \in 65..70 THEN c - 55 ELSE c - 87

\* Whether the characters of pattern p stand in t from index i on.
MatchExact(t, i, p) == \A k \in 0..(p.len - 1) : CharAt(t, i + k) = CharAt(p, k)

\* The same for a lower-case pattern under flag i.
MatchAt(t, i, p) == \A k \in 0..(p.len - 1) : Lower(CharAt(t, i + k)) = CharAt(p, k)

\* t.indexOf(p), for a pattern that does not begin with a full stop.
indexOf(t, p) ==
  LET hits == {i \in 0..(Len(t.chars) - 1) : MatchExact(t, i, p)}
  IN IF hits = {} THEN -1 ELSE First(hits)

\* [a-f0-9-] under flag i
IsIdChar(c) == Lower(c) \in (97..102) \cup (48..57) \cup {45}

\* [^\s";\r\n]
IsBoundaryChar(c) == ~IsSpace(c) /\ c \notin {34, 59, 13, 10}

\* Whether character c is in a class of the regular expressions.
InClass(class, c) ==
  CASE class = "space" -> IsSpace(c)
    [] class = "id" -> IsIdChar(c)
    [] class = "boundary" -> IsBoundaryChar(c)

\* The index after the longest run of characters of a class from index q on.
RunEnd(t, q, class) ==
  LET stops == {j \in q..(Len(t.chars) - 1) : ~InClass(class, CharAt(t, j))}
  IN IF stops # {} THEN First(stops)
     ELSE IF InClass(class, 46) THEN Max(q, t.len) ELSE Max(q, Len(t.chars))

\* t.split(sep)
RECURSIVE split(_, _)
split(t, sep) ==
  LET i == indexOf(t, sep)
  IN IF i = -1 THEN <<t>>
     ELSE <<substring(t, 0, i)>> \o split(substring(t, i + sep.len, t.len), sep)

\* t.trim()
trim(t) ==
  LET a == RunEnd(t, 0, "space")
      kept == {j \in 0..(Len(t.chars) - 1) : ~IsSpace(CharAt(t, j))}
      b == IF More(t) > 0 THEN t.len
           ELSE IF kept = {} THEN 0
           ELSE (CHOOSE j \in kept : \A k \in kept : k <= j) + 1
  IN substring(t, a, Max(a, b))

\* /name\s*value/i.test(t), name and value in lower case.
HeaderTest(t, name, value) ==
  \E i \in 0..(Len(t.chars) - 1) :
    /\ MatchAt(t, i, name)
    /\ MatchAt(t, RunEnd(t, i + name.len, "space"), value)

VARIABLES reports, media, nextUuid, now, adm, ops, rep,
          geocode_cache, lastNominatimCall, nominatimCalls, geo,
          wrk, qp, localStorage, localSaves

\* The state of reverse-geocode: table geocode_cache, the module variable
\* lastNominatimCall, the upstream calls made so far, the running requests.
geoVars == <<geocode_cache, lastNominatimCall, nominatimCalls, geo>>

\* The state of the email worker: its running invocations, and the text
\* under quoted-printable decoding.
mailVars == <<wrk, qp>>

\* The state of the reporter's browser: the localStorage item of key
\* girotrash-my-reports, and the reports the page has handed to
\* saveLocalReport so far.
localVars == <<localStorage, localSaves>>

vars == <<reports, media, nextUuid, now, adm, ops, rep, geoVars, mailVars, localVars>>

AdmSlots == {1, 2}

\* The slot of the specifications with one admission request at a time.
OneAdmSlot == {1}

OpSlots == {1, 2}

RepSlots == {1}

GeoSlots == {1, 2}

WrkSlots == {1}

(***************************************************************************)
(* haversineDistance, in millimetres.  TLC has no floating point: the      *)
(* operator tabulates the source formula (R = 6371000, evaluated in IEEE   *)
(* doubles) on the coordinates the requests of the model carry.            *)
(***************************************************************************)
haversineDistance(lat1, lon1, lat2, lon2) ==
  CASE lat1 = lat2 /\ lon1 = lon2 -> 0
    [] <<lat1, lon1, lat2, lon2>> = <<41980000, 2822000, 41979400, 2821400>> -> 83132
    [] <<lat1, lon1, lat2, lon2>> = <<42024363, 2821400, 41979400, 2821400>> -> 4999657
    [] <<lat1, lon1, lat2, lon2>> = <<42024369, 2821400, 41979400, 2821400>> -> 5000325
    [] <<lat1, lon1, lat2, lon2>> = <<42500000, 2821400, 41979400, 2821400>> -> 57888079

\* Variant of the rounding that cuts the fraction off.
MathFloor(mm) == mm \div 1000

\* Math.round of a distance in millimetres, in metres.
MathRound(mm) == (mm + 500) \div 1000

\* Variant: the comparison made on the rounded distance that is stored.
InsideServiceAreaRounded(distance) == MathRound(distance) <= SERVICE_RADIUS_M

\* distance <= SERVICE_RADIUS_M, on the distance as computed (not rounded).
InsideServiceArea(distance) == distance <= SERVICE_RADIUS_M * 1000

\* Variant: the honeypot field is only looked at after the other fields,
\* which a request with an invalid category never reaches.
IsBotIgnored(honeypot) == FALSE

\* if (honeypot): a string that is not empty.
IsBot(honeypot) == honeypot # ""

\* clientIp: first x-forwarded-for entry, else cf-connecting-ip, else 'unknown'.
clientIp(xff, cf) ==
  IF xff # "" THEN xff ELSE IF cf # "" THEN cf ELSE "unknown"

\* SHA-256 hex digest: a one-way tag of its input, never the input itself.
hashString(str) == <<"sha256", str>>

\* `${report.id}/${i}.jpg`
StoragePath(id, i) == <<id, i>>

jsonOk(report_id, upload_urls) ==
  [status |-> 200, error |-> "", report_id |-> report_id, upload_urls |-> upload_urls]

jsonError(message, status) ==
  [status |-> status, error |-> message, report_id |-> NoId, upload_urls |-> <<>>]

NoResp == [status |-> 0, error |-> "", report_id |-> NoId, upload_urls |-> <<>>]

NoReq ==
  [lat |-> JMissing, lon |-> JMissing, category |-> "", photo_count |-> JMissing,
   honeypot |-> "", xff |-> "", cf |-> ""]

IdleAdm ==
  [pc |-> "idle", req |-> NoReq, ipHash |-> hashString(""), distance |-> 0,
   count |-> NoCount, report_id |-> NoId, i |-> 0, uploadUrls |-> <<>>, signFailed |-> FALSE,
   resp |-> NoResp]

\* Variant: the limit is reached only above RATE_LIMIT_PER_HOUR.
RateLimitedAbove(count) == count # NoCount /\ count > RATE_LIMIT_PER_HOUR

\* Variant: a count that could not be obtained refuses the request.
RateLimitedOrUnknown(count) == count = NoCount \/ count >= RATE_LIMIT_PER_HOUR

\* count != null && count >= RATE_LIMIT_PER_HOUR
RateLimited(count) == count # NoCount /\ count >= RATE_LIMIT_PER_HOUR

\* The rows of table reports that the rate-limit query counts.
RecentCount(ipHash, t) ==
  Cardinality({id \in DOMAIN reports :
                 /\ reports[id].ip_hash = ipHash
                 /\ reports[id].created_at >= t - OneHourMs})

NewReport(a) ==
  [status |-> "pending_review",
   lat |-> adm[a].req.lat.v,
   lon |-> adm[a].req.lon.v,
   distance_to_girona_m |-> MathRound(adm[a].distance),
   inside_service_area |-> InsideServiceArea(adm[a].distance),
   category |-> adm[a].req.category,
   ip_hash |-> adm[a].ipHash,
   created_at |-> now,
   last_error |-> NULL,
   fcc_incident_id |-> NULL,
   sent_at |-> NoTime,
   reply_text |-> NULL,
   reply_from |-> NULL,
   replied_at |-> NoTime]

NewMedia(id, i) ==
  [report_id |-> id, storage_path |-> StoragePath(id, i), mime_type |-> "image/jpeg",
   compressed_bytes |-> 0, width |-> 0, height |-> 0]

Extend(f, k, v) == [x \in DOMAIN f \cup {k} |-> IF x = k THEN v ELSE f[x]]

Finish(a, resp) == adm' = [adm EXCEPT ![a].pc = "done", ![a].resp = resp]

(***************************************************************************)
(* Requests sent to create-report.  BaseReq is the example of the          *)
(* documentation (41.9800, 2.8220, waste, two photos); the others change   *)
(* it in one or two fields.                                                *)
(***************************************************************************)
BaseReq ==
  [lat |-> JNum(41980000), lon |-> JNum(2822000), category |-> "waste",
   photo_count |-> JNum(4), honeypot |-> "", xff |-> "203.0.113.7", cf |-> ""]

AdmRequests ==
  { BaseReq,
    [BaseReq EXCEPT !.photo_count = JNum(2), !.category = "litter",
                    !.xff = "", !.cf = "198.51.100.9"],
    [BaseReq EXCEPT !.photo_count = JNum(5)],
    [BaseReq EXCEPT !.lat = JNum(42024363), !.lon = JNum(2821400),
                    !.photo_count = JNum(2)],
    [BaseReq EXCEPT !.lat = JNum(42024369), !.lon = JNum(2821400)],
    [BaseReq EXCEPT !.lat = JNum(42500000), !.lon = JNum(2821400),
                    !.category = "litter"],
    [BaseReq EXCEPT !.lat = JNum(91000000)],
    [BaseReq EXCEPT !.lat = JMissing],
    [BaseReq EXCEPT !.lon = JNum(181000000)],
    [BaseReq EXCEPT !.photo_count = JNum(0)],
    [BaseReq EXCEPT !.photo_count = JNum(12)],
    [BaseReq EXCEPT !.photo_count = JMissing],
    [BaseReq EXCEPT !.category = "other"],
    [BaseReq EXCEPT !.honeypot = "bot"],
    [BaseReq EXCEPT !.honeypot = "bot", !.lat = JNum(42500000),
                    !.lon = JNum(2821400), !.category = "other",
                    !.photo_count = JNum(12), !.xff = "", !.cf = ""] }

\* Requests of one submitter.
RateRequests ==
  { [BaseReq EXCEPT !.photo_count = JNum(2)],
    [BaseReq EXCEPT !.lat = JNum(42500000), !.lon = JNum(2821400)],
    [BaseReq EXCEPT !.lat = JNum(91000000)],
    [BaseReq EXCEPT !.lon = JNum(181000000)],
    [BaseReq EXCEPT !.photo_count = JNum(12)],
    [BaseReq EXCEPT !.category = "other"] }

\* Requests with the honeypot field filled in: one of the submitter of
\* LifeRequests and otherwise valid, one with every other field invalid and
\* no caller address, one without coordinates.
HoneypotRequests ==
  { [BaseReq EXCEPT !.honeypot = "bot", !.photo_count = JNum(2)],
    [BaseReq EXCEPT !.honeypot = "x", !.lat = JNum(42500000),
                    !.lon = JNum(181000000), !.category = "other",
                    !.photo_count = JNum(12), !.xff = "", !.cf = ""],
    [BaseReq EXCEPT !.honeypot = "bot", !.lat = JMissing, !.lon = JMissing,
                    !.category = "litter", !.xff = "", !.cf = "198.51.100.9"] }

\* What a datastore or blob-store call can answer.
AnyOutcome == {"ok", "error"}

OkOutcome == {"ok"}

(***************************************************************************)
(* Variant of the start of create-report that takes any category.          *)
(***************************************************************************)
AdmissionStartAnyCategory(a, req, maxUuid) ==
  /\ adm[a].pc \in {"idle", "done"}
  /\ LET s == [IdleAdm EXCEPT !.req = req]
         distance == haversineDistance(req.lat.v, req.lon.v, GIRONA_LAT, GIRONA_LON)
         insideServiceArea == InsideServiceArea(distance)
         done(resp) == adm' = [adm EXCEPT ![a] = [s EXCEPT !.pc = "done", !.resp = resp]]
     IN
     IF IsBot(req.honeypot)
     THEN /\ nextUuid <= maxUuid
          /\ nextUuid' = nextUuid + 1
          /\ done(jsonOk(nextUuid, <<>>))
     ELSE /\ UNCHANGED nextUuid
          /\ IF req.lat.type # "number" \/ req.lat.v < -90000000 \/ req.lat.v > 90000000
             THEN done(jsonError("Invalid latitude", 400))
             ELSE IF req.lon.type # "number" \/ req.lon.v < -180000000 \/ req.lon.v > 180000000
             THEN done(jsonError("Invalid longitude", 400))
             ELSE IF req.photo_count.type # "number" \/ req.photo_count.v < 2 * 1
                     \/ req.photo_count.v > 2 * MAX_PHOTOS
             THEN done(jsonError("photo_count must be 1-5", 400))
             ELSE IF ~insideServiceArea
             THEN done(jsonError("Location is outside the Girona service area", 400))
             ELSE adm' = [adm EXCEPT ![a] =
                            [s EXCEPT !.pc = "count",
                                      !.distance = distance,
                                      !.ipHash = hashString(clientIp(req.xff, req.cf))]]
  /\ UNCHANGED <<reports, media, now, ops, rep, geoVars, mailVars, localVars>>

(***************************************************************************)
(* Variant of the start of create-report that validates the input before   *)
(* it looks at the honeypot.                                               *)
(***************************************************************************)
AdmissionStartValidatesFirst(a, req, maxUuid) ==
  /\ adm[a].pc \in {"idle", "done"}
  /\ LET s == [IdleAdm EXCEPT !.req = req]
         distance == haversineDistance(req.lat.v, req.lon.v, GIRONA_LAT, GIRONA_LON)
         insideServiceArea == InsideServiceArea(distance)
         done(resp) == adm' = [adm EXCEPT ![a] = [s EXCEPT !.pc = "done", !.resp = resp]]
         invalid ==
           IF req.lat.type # "number" \/ req.lat.v < -90000000 \/ req.lat.v > 90000000
           THEN jsonError("Invalid latitude", 400)
           ELSE IF req.lon.type # "number" \/ req.lon.v < -180000000 \/ req.lon.v > 180000000
           THEN jsonError("Invalid longitude", 400)
           ELSE IF req.photo_count.type # "number" \/ req.photo_count.v < 2 * 1
                   \/ req.photo_count.v > 2 * MAX_PHOTOS
           THEN jsonError("photo_count must be 1-5", 400)
           ELSE IF req.category # "waste" /\ req.category # "litter"
           THEN jsonError("category must be \"waste\" or \"litter\"", 400)
           ELSE IF ~insideServiceArea
           THEN jsonError("Location is outside the Girona service area", 400)
           ELSE NoResp
     IN
     IF invalid # NoResp
     THEN /\ UNCHANGED nextUuid
          /\ done(invalid)
     ELSE IF IsBot(req.honeypot)
     THEN /\ nextUuid <= maxUuid
          /\ nextUuid' = nextUuid + 1
          /\ done(jsonOk(nextUuid, <<>>))
     ELSE /\ UNCHANGED nextUuid
          /\ adm' = [adm EXCEPT ![a] =
                       [s EXCEPT !.pc = "count",
                                 !.distance = distance,
                                 !.ipHash = hashString(clientIp(req.xff, req.cf))]]
  /\ UNCHANGED <<reports, media, now, ops, rep, geoVars, mailVars, localVars>>

(***************************************************************************)
(* create-report: from the request to the first datastore call (honeypot,  *)
(* validation, geofence, hash of the caller's address).                    *)
(***************************************************************************)
AdmissionStart(a, req, maxUuid) ==
  /\ adm[a].pc \in {"idle", "done"}
  /\ LET s == [IdleAdm EXCEPT !.req = req]
         distance == haversineDistance(req.lat.v, req.lon.v, GIRONA_LAT, GIRONA_LON)
         insideServiceArea == InsideServiceArea(distance)
         done(resp) == adm' = [adm EXCEPT ![a] = [s EXCEPT !.pc = "done", !.resp = resp]]
     IN
     IF IsBot(req.honeypot)
     THEN /\ nextUuid <= maxUuid
          /\ nextUuid' = nextUuid + 1
          /\ done(jsonOk(nextUuid, <<>>))
     ELSE /\ UNCHANGED nextUuid
          /\ IF req.lat.type # "number" \/ req.lat.v < -90000000 \/ req.lat.v > 90000000
             THEN done(jsonError("Invalid latitude", 400))
             ELSE IF req.lon.type # "number" \/ req.lon.v < -180000000 \/ req.lon.v > 180000000
             THEN done(jsonError("Invalid longitude", 400))
             ELSE IF req.photo_count.type # "number" \/ req.photo_count.v < 2 * 1
                     \/ req.photo_count.v > 2 * MAX_PHOTOS
             THEN done(jsonError("photo_count must be 1-5", 400))
             ELSE IF req.category # "waste" /\ req.category # "litter"
             THEN done(jsonError("category must be \"waste\" or \"litter\"", 400))
             ELSE IF ~insideServiceArea
             THEN done(jsonError("Location is outside the Girona service area", 400))
             ELSE adm' = [adm EXCEPT ![a] =
                            [s EXCEPT !.pc = "count",
                                      !.distance = distance,
                                      !.ipHash = hashString(clientIp(req.xff, req.cf))]]
  /\ UNCHANGED <<reports, media, now, ops, rep, geoVars, mailVars, localVars>>

(***************************************************************************)
(* create-report: the count of recent reports of this submitter, and the   *)
(* decision on it.  The count is null when the query fails.                *)
(***************************************************************************)
AdmissionCount(a, outcomes) ==
  /\ adm[a].pc = "count"
  /\ \E o \in outcomes :
       LET count == IF o = "ok" THEN RecentCount(adm[a].ipHash, now) ELSE NoCount
       IN IF RateLimited(count)
          THEN adm' = [adm EXCEPT ![a].pc = "done", ![a].count = count,
                                  ![a].resp = jsonError("Too many requests. Please try again later.", 429)]
          ELSE adm' = [adm EXCEPT ![a].pc = "insert", ![a].count = count]
  /\ UNCHANGED <<reports, media, nextUuid, now, ops, rep, geoVars, mailVars, localVars>>

(***************************************************************************)
(* Variant of the insert that counts again, in one transaction with the    *)
(* insert, and refuses the report over the limit.                          *)
(***************************************************************************)
AdmissionInsertCountsAgain(a, outcomes, maxUuid) ==
  /\ adm[a].pc = "insert"
  /\ \E o \in outcomes :
       IF o = "error"
       THEN /\ Finish(a, jsonError("Failed to create report", 500))
            /\ UNCHANGED <<reports, nextUuid, ops, rep>>
       ELSE IF RateLimited(RecentCount(adm[a].ipHash, now))
       THEN /\ Finish(a, jsonError("Too many requests. Please try again later.", 429))
            /\ UNCHANGED <<reports, nextUuid, ops, rep>>
       ELSE /\ nextUuid <= maxUuid
            /\ nextUuid' = nextUuid + 1
            /\ reports' = Extend(reports, nextUuid, NewReport(a))
            /\ adm' = [adm EXCEPT ![a].pc = "sign", ![a].report_id = nextUuid,
                                  ![a].i = 0, ![a].uploadUrls = <<>>]
  /\ UNCHANGED <<media, now, ops, rep, geoVars, mailVars, localVars>>

(***************************************************************************)
(* create-report: insert of the report row.                                *)
(***************************************************************************)
AdmissionInsert(a, outcomes, maxUuid) ==
  /\ adm[a].pc = "insert"
  /\ \E o \in outcomes :
       IF o = "error"
       THEN /\ Finish(a, jsonError("Failed to create report", 500))
            /\ UNCHANGED <<reports, nextUuid, ops, rep>>
       ELSE /\ nextUuid <= maxUuid
            /\ nextUuid' = nextUuid + 1
            /\ reports' = Extend(reports, nextUuid, NewReport(a))
            /\ adm' = [adm EXCEPT ![a].pc = "sign", ![a].report_id = nextUuid,
                                  ![a].i = 0, ![a].uploadUrls = <<>>]
  /\ UNCHANGED <<media, now, ops, rep, geoVars, mailVars, localVars>>

(***************************************************************************)
(* Variant of the createSignedUploadUrl step: a photo whose URL cannot be  *)
(* signed is skipped and the loop goes on.                                 *)
(***************************************************************************)
AdmissionSignSkipsFailure(a, outcomes) ==
  /\ adm[a].pc = "sign"
  /\ \E o \in outcomes :
       IF o = "error"
       THEN IF 2 * (adm[a].i + 1) < adm[a].req.photo_count.v
            THEN adm' = [adm EXCEPT ![a].i = @ + 1, ![a].signFailed = TRUE]
            ELSE adm' = [adm EXCEPT ![a].pc = "done", ![a].signFailed = TRUE,
                                    ![a].resp = jsonOk(adm[a].report_id, adm[a].uploadUrls)]
       ELSE adm' = [adm EXCEPT ![a].pc = "media"]
  /\ UNCHANGED <<reports, media, nextUuid, now, ops, rep, geoVars, mailVars, localVars>>

(***************************************************************************)
(* create-report: one createSignedUploadUrl call of the loop.              *)
(***************************************************************************)
AdmissionSign(a, outcomes) ==
  /\ adm[a].pc = "sign"
  /\ \E o \in outcomes :
       IF o = "error"
       THEN adm' = [adm EXCEPT ![a].pc = "done", ![a].signFailed = TRUE,
                               ![a].resp = jsonError("Failed to generate upload URL", 500)]
       ELSE adm' = [adm EXCEPT ![a].pc = "media"]
  /\ UNCHANGED <<reports, media, nextUuid, now, ops, rep, geoVars, mailVars, localVars>>

(***************************************************************************)
(* create-report: insert of one report_media row (its result is not read), *)
(* push of the upload URL, and the loop test.  The row is refused by the   *)
(* foreign key when the report is gone.                                    *)
(***************************************************************************)
AdmissionMedia(a, outcomes) ==
  /\ adm[a].pc = "media"
  /\ LET id == adm[a].report_id
         i == adm[a].i
         urls == Append(adm[a].uploadUrls, [path |-> StoragePath(id, i)])
     IN /\ \E o \in outcomes :
             IF o = "ok" /\ id \in DOMAIN reports
             THEN media' = media \cup {NewMedia(id, i)}
             ELSE UNCHANGED media
        /\ IF 2 * (i + 1) < adm[a].req.photo_count.v
           THEN adm' = [adm EXCEPT ![a].pc = "sign", ![a].i = i + 1,
                                   ![a].uploadUrls = urls]
           ELSE adm' = [adm EXCEPT ![a].pc = "done", ![a].i = i + 1,
                                   ![a].uploadUrls = urls,
                                   ![a].resp = jsonOk(id, urls)]
  /\ UNCHANGED <<reports, nextUuid, now, ops, rep, geoVars, mailVars, localVars>>

\* Time passes.
Tick(step, maxNow) ==
  /\ now + step <= maxNow
  /\ now' = now + step
  /\ UNCHANGED <<reports, media, nextUuid, adm, ops, rep, geoVars, mailVars, localVars>>

(***************************************************************************)
(* submit-to-fcc.  A response of the agency endpoint: fetch throws, or     *)
(* there is an HTTP status and a body.  A body is text that is no JSON,    *)
(* the JSON value null, or a JSON object, of which the fields id, name,    *)
(* altainc and resultado are read (NULL: the field is absent).             *)
(***************************************************************************)
FccObject(id, name, altainc, resultado, len) ==
  [kind |-> "object", len |-> len, id |-> id, name |-> name,
   altainc |-> altainc, resultado |-> resultado]

FccText(kind, len) ==
  [kind |-> kind, len |-> len, id |-> NULL, name |-> NULL,
   altainc |-> NULL, resultado |-> NULL]

FccResponse(thrown, status, body) == [thrown |-> thrown, status |-> status, body |-> body]

NoFccResponse == FccResponse(FALSE, 0, FccText("none", 0))

FccResponses ==
  { FccResponse(TRUE, 0, FccText("none", 0)),
    FccResponse(FALSE, 200, FccObject(NULL, NULL, NULL, Str("1", 1), 30)),
    FccResponse(FALSE, 200, FccObject(NULL, NULL, Str("12345", 5), NULL, 19)),
    FccResponse(FALSE, 200, FccObject(Str("E000", 4), Str("error message", 13), NULL, NULL, 36)),
    FccResponse(FALSE, 200, FccObject(Str("E000", 4), NULL, NULL, NULL, 13)),
    FccResponse(FALSE, 200, FccObject(Str("E000", 4), Str("long error message", 300), NULL, NULL, 323)),
    FccResponse(FALSE, 500, FccObject(NULL, NULL, NULL, NULL, 27)),
    FccResponse(FALSE, 200, FccObject(NULL, NULL, NULL, NULL, 2)),
    FccResponse(FALSE, 502, FccText("text", 250)),
    FccResponse(FALSE, 200, FccText("text", 12)),
    FccResponse(FALSE, 200, FccText("null", 4)) }

\* The length fccText.substring(0, 200) keeps of a body that is no JSON.
LastErrorCap == 200

\* JS truthiness of a string field: present and not empty.
Truthy(s) == s # NULL /\ s.len > 0

\* a || b || null on string fields.
OrElse(a, b) == IF Truthy(a) THEN a ELSE IF Truthy(b) THEN b ELSE NULL

dispOk(fccIncidentId) ==
  [status |-> 200, error |-> "", success |-> TRUE, fcc_incident_id |-> fccIncidentId]

dispError(message, status) ==
  [status |-> status, error |-> message, success |-> FALSE, fcc_incident_id |-> NULL]

NoDispResp == [status |-> 0, error |-> "", success |-> FALSE, fcc_incident_id |-> NULL]

CATEGORY_MAP == {"waste", "litter"}

(***************************************************************************)
(* What submit-to-fcc makes of the agency's response: "throw" (the         *)
(* exception reaches the handler's catch), "fail" (revert, with last_error *)
(* and the response) or "success" (with the incident id).                  *)
(***************************************************************************)
InterpretFcc(r) ==
  IF r.thrown
  THEN [kind |-> "throw", last_error |-> NULL, resp |-> dispError("Internal server error", 500)]
  ELSE IF r.body.kind = "text"
  THEN [kind |-> "fail",
        last_error |-> Str("FCC error (status): text", 17 + Min(r.body.len, 200)),
        resp |-> dispError("FCC submission failed: text", 502)]
  ELSE IF r.body.kind = "null"
  THEN [kind |-> "throw", last_error |-> NULL, resp |-> dispError("Internal server error", 500)]
  ELSE IF r.body.id = Str("E000", 4)
  THEN [kind |-> "fail",
        last_error |-> Str("FCC error: name", 11 + (IF Truthy(r.body.name)
                                                    THEN r.body.name.len ELSE r.body.len)),
        resp |-> dispError("FCC submission failed: name", 502)]
  ELSE [kind |-> "success", last_error |-> NULL,
        resp |-> dispOk(OrElse(r.body.altainc, r.body.resultado))]

\* Row-level security lets the page's own datastore calls through for an admin session.
RlsAdmin(auth) == auth = "admin"

IdleOp ==
  [pc |-> "idle", view |-> NoId, viewStatus |-> "", auth |-> "", report_id |-> NoId,
   hasMedia |-> FALSE, category |-> "", photoBlob |-> FALSE,
   fcc |-> NoFccResponse, err |-> NULL,
   resp |-> NoDispResp]

\* .update(fields).eq('id', id): no row, no change.
UpdateReport(id, fields) ==
  IF id \in DOMAIN reports
  THEN [reports EXCEPT ![id] = [f \in DOMAIN reports[id] |->
                                  IF f \in DOMAIN fields THEN fields[f] ELSE reports[id][f]]]
  ELSE reports

\* The handler returns: the page's adminSendReport resolves (ok) or throws.
Returns(o, resp) ==
  [ops[o] EXCEPT !.pc = IF resp.status = 200 THEN "ui_reload" ELSE "ui_revert",
                 !.resp = resp]

(***************************************************************************)
(* AdminReportDetail: loadReport on opening the page of report id.         *)
(***************************************************************************)
OpLoadReport(o, id) ==
  /\ ops[o].pc = "idle"
  /\ ops' = [ops EXCEPT ![o] =
               IF id \in DOMAIN reports
               THEN [IdleOp EXCEPT !.view = id, !.viewStatus = reports[id].status]
               ELSE IdleOp]
  /\ UNCHANGED <<reports, media, nextUuid, now, adm, rep, geoVars, mailVars, localVars>>

(***************************************************************************)
(* Variant of the start of a dispatch in which any signed-in user passes   *)
(* the allowlist.                                                          *)
(***************************************************************************)
DispatchStartAnyUser(o, auth) ==
  /\ ops[o].pc = "idle"
  /\ ops[o].view # NoId
  /\ ops[o].viewStatus \in {"pending_review", "approved_sending"}
  /\ LET s == [ops[o] EXCEPT !.auth = auth, !.report_id = ops[o].view] IN
     ops' = [ops EXCEPT ![o] =
       CASE auth = "none" ->
              [s EXCEPT !.pc = "ui_revert",
                        !.resp = dispError("Unauthorized: no auth header", 401)]
         [] auth = "invalid" ->
              [s EXCEPT !.pc = "ui_revert",
                        !.resp = dispError("Unauthorized: invalid token", 401)]
         [] OTHER -> [s EXCEPT !.pc = "load"]]
  /\ UNCHANGED <<reports, media, nextUuid, now, adm, rep, geoVars, mailVars, localVars>>

(***************************************************************************)
(* handleApprove, and submit-to-fcc up to its first datastore call         *)
(* (authentication and allowlist).                                         *)
(***************************************************************************)
DispatchStart(o, auth) ==
  /\ ops[o].pc = "idle"
  /\ ops[o].view # NoId
  /\ ops[o].viewStatus \in {"pending_review", "approved_sending"}
  /\ LET s == [ops[o] EXCEPT !.auth = auth, !.report_id = ops[o].view] IN
     ops' = [ops EXCEPT ![o] =
       CASE auth = "none" ->
              [s EXCEPT !.pc = "ui_revert",
                        !.resp = dispError("Unauthorized: no auth header", 401)]
         [] auth = "invalid" ->
              [s EXCEPT !.pc = "ui_revert",
                        !.resp = dispError("Unauthorized: invalid token", 401)]
         [] auth = "forbidden" ->
              [s EXCEPT !.pc = "ui_revert",
                        !.resp = dispError("Forbidden: not an admin", 403)]
         [] OTHER -> [s EXCEPT !.pc = "load"]]
  /\ UNCHANGED <<reports, media, nextUuid, now, adm, rep, geoVars, mailVars, localVars>>

\* Variant of the select that goes on to the download, the status untouched.
DispatchLoadThenDownload(o) ==
  /\ ops[o].pc = "load"
  /\ LET id == ops[o].report_id IN
     ops' = [ops EXCEPT ![o] =
       IF id \notin DOMAIN reports
       THEN Returns(o, dispError("Report not found", 404))
       ELSE [ops[o] EXCEPT !.pc = IF \E m \in media : m.report_id = id
                                  THEN "download" ELSE "approve",
                           !.hasMedia = \E m \in media : m.report_id = id,
                           !.category = reports[id].category]]
  /\ UNCHANGED <<reports, media, nextUuid, now, adm, rep, geoVars, mailVars, localVars>>

\* Variant of the select that refuses a report another dispatch has in
\* approved_sending.
DispatchLoadRefusesInFlight(o) ==
  /\ ops[o].pc = "load"
  /\ LET id == ops[o].report_id IN
     ops' = [ops EXCEPT ![o] =
       IF id \notin DOMAIN reports
       THEN Returns(o, dispError("Report not found", 404))
       ELSE IF reports[id].status = "approved_sending"
       THEN [ops[o] EXCEPT !.pc = "ui_reload", !.resp = dispError("Dispatch in progress", 409)]
       ELSE [ops[o] EXCEPT !.pc = "approve",
                           !.hasMedia = \E m \in media : m.report_id = id,
                           !.category = reports[id].category]]
  /\ UNCHANGED <<reports, media, nextUuid, now, adm, rep, geoVars, mailVars, localVars>>

\* submit-to-fcc: select of the report with its media.
DispatchLoad(o) ==
  /\ ops[o].pc = "load"
  /\ LET id == ops[o].report_id IN
     ops' = [ops EXCEPT ![o] =
       IF id \notin DOMAIN reports
       THEN Returns(o, dispError("Report not found", 404))
       ELSE [ops[o] EXCEPT !.pc = "approve",
                           !.hasMedia = \E m \in media : m.report_id = id,
                           !.category = reports[id].category]]
  /\ UNCHANGED <<reports, media, nextUuid, now, adm, rep, geoVars, mailVars, localVars>>

\* submit-to-fcc: update of the status to approved_sending.
DispatchApprove(o) ==
  /\ ops[o].pc = "approve"
  /\ reports' = UpdateReport(ops[o].report_id, [status |-> "approved_sending"])
  /\ ops' = [ops EXCEPT ![o] =
       IF ops[o].hasMedia
       THEN [ops[o] EXCEPT !.pc = "download"]
       ELSE [ops[o] EXCEPT !.pc = "revert",
                           !.err = Str("No photo available for FCC submission", 37),
                           !.resp = dispError("No photo available for submission", 400)]]
  /\ UNCHANGED <<media, nextUuid, now, adm, rep, geoVars, mailVars, localVars>>

\* Variant of the download that goes on to the agency without a photo.
DispatchDownloadIgnoresFailure(o, outcomes) ==
  /\ ops[o].pc = "download"
  /\ \E d \in outcomes :
       ops' = [ops EXCEPT ![o] = [ops[o] EXCEPT !.pc = "fetch", !.photoBlob = (d = "ok")]]
  /\ UNCHANGED <<reports, media, nextUuid, now, adm, rep, geoVars, mailVars, localVars>>

\* submit-to-fcc: download of the first photo, and the category lookup.
DispatchDownload(o, outcomes) ==
  /\ ops[o].pc = "download"
  /\ \E d \in outcomes :
       ops' = [ops EXCEPT ![o] =
         IF d = "error"
         THEN [ops[o] EXCEPT !.pc = "revert",
                             !.err = Str("No photo available for FCC submission", 37),
                             !.resp = dispError("No photo available for submission", 400)]
         ELSE IF ops[o].category \notin CATEGORY_MAP
         THEN [ops[o] EXCEPT !.pc = "revert", !.photoBlob = TRUE,
                             !.err = Str("Invalid category: category", 18 + 5),
                             !.resp = dispError("Invalid category: category", 400)]
         ELSE [ops[o] EXCEPT !.pc = "fetch", !.photoBlob = TRUE]]
  /\ UNCHANGED <<reports, media, nextUuid, now, adm, rep, geoVars, mailVars, localVars>>

\* submit-to-fcc: the request to the agency endpoint and the reading of its answer.
DispatchFetch(o, r) ==
  /\ ops[o].pc = "fetch"
  /\ LET v == InterpretFcc(r) IN
     ops' = [ops EXCEPT ![o] =
       CASE v.kind = "throw" -> [Returns(o, v.resp) EXCEPT !.fcc = r]
         [] v.kind = "fail" -> [ops[o] EXCEPT !.pc = "revert", !.fcc = r,
                                              !.err = v.last_error, !.resp = v.resp]
         [] OTHER -> [ops[o] EXCEPT !.pc = "mark_sent", !.fcc = r, !.resp = v.resp]]
  /\ UNCHANGED <<reports, media, nextUuid, now, adm, rep, geoVars, mailVars, localVars>>

\* submit-to-fcc: update back to pending_review with last_error, error response.
DispatchRevert(o) ==
  /\ ops[o].pc = "revert"
  /\ reports' = UpdateReport(ops[o].report_id,
                             [status |-> "pending_review", last_error |-> ops[o].err])
  /\ ops' = [ops EXCEPT ![o] = Returns(o, ops[o].resp)]
  /\ UNCHANGED <<media, nextUuid, now, adm, rep, geoVars, mailVars, localVars>>

\* Variant of the update to sent that leaves last_error as it is.
DispatchMarkSentKeepsError(o) ==
  /\ ops[o].pc = "mark_sent"
  /\ reports' = UpdateReport(ops[o].report_id,
                             [status |-> "sent",
                              fcc_incident_id |-> ops[o].resp.fcc_incident_id,
                              sent_at |-> now])
  /\ ops' = [ops EXCEPT ![o] = Returns(o, ops[o].resp)]
  /\ UNCHANGED <<media, nextUuid, now, adm, rep, geoVars, mailVars, localVars>>

\* submit-to-fcc: update to sent, success response.
DispatchMarkSent(o) ==
  /\ ops[o].pc = "mark_sent"
  /\ reports' = UpdateReport(ops[o].report_id,
                             [status |-> "sent",
                              fcc_incident_id |-> ops[o].resp.fcc_incident_id,
                              sent_at |-> now,
                              last_error |-> NULL])
  /\ ops' = [ops EXCEPT ![o] = Returns(o, ops[o].resp)]
  /\ UNCHANGED <<media, nextUuid, now, adm, rep, geoVars, mailVars, localVars>>

\* handleApprove, catch: adminUpdateReport(id, {status: 'pending_review'}).
UiRevert(o) ==
  /\ ops[o].pc = "ui_revert"
  /\ reports' = IF RlsAdmin(ops[o].auth)
                THEN UpdateReport(ops[o].report_id, [status |-> "pending_review"])
                ELSE reports
  /\ ops' = [ops EXCEPT ![o].pc = "ui_reload"]
  /\ UNCHANGED <<media, nextUuid, now, adm, rep, geoVars, mailVars, localVars>>

\* loadReport after an action: the page shows the stored row again.
UiReload(o) ==
  /\ ops[o].pc = "ui_reload"
  /\ ops' = [ops EXCEPT ![o] =
       IF ops[o].view \in DOMAIN reports
       THEN [IdleOp EXCEPT !.view = ops[o].view,
                           !.viewStatus = reports[ops[o].view].status]
       ELSE [IdleOp EXCEPT !.view = ops[o].view, !.viewStatus = ops[o].viewStatus]]
  /\ UNCHANGED <<reports, media, nextUuid, now, adm, rep, geoVars, mailVars, localVars>>

\* handleReject: adminUpdateReport(id, {status: 'rejected'}), then loadReport.
OpReject(o) ==
  /\ ops[o].pc = "idle"
  /\ ops[o].view # NoId
  /\ ops[o].viewStatus \in {"pending_review", "approved_sending"}
  /\ reports' = UpdateReport(ops[o].view, [status |-> "rejected"])
  /\ ops' = [ops EXCEPT ![o].pc = IF ops[o].view \in DOMAIN reports
                                  THEN "ui_reload" ELSE "idle"]
  /\ UNCHANGED <<media, nextUuid, now, adm, rep, geoVars, mailVars, localVars>>

\* Variant of the deletion without ON DELETE CASCADE on report_media.
OpDeleteKeepsMedia(o) ==
  /\ ops[o].pc = "idle"
  /\ ops[o].view # NoId
  /\ reports' = [id \in DOMAIN reports \ {ops[o].view} |-> reports[id]]
  /\ ops' = [ops EXCEPT ![o] = IdleOp]
  /\ UNCHANGED <<media, nextUuid, now, adm, rep, geoVars, mailVars, localVars>>

\* handleDelete: adminDeleteReport(id); report_media rows go with the report.
OpDelete(o) ==
  /\ ops[o].pc = "idle"
  /\ ops[o].view # NoId
  /\ reports' = [id \in DOMAIN reports \ {ops[o].view} |-> reports[id]]
  /\ media' = {m \in media : m.report_id # ops[o].view}
  /\ ops' = [ops EXCEPT ![o] = IdleOp]
  /\ UNCHANGED <<nextUuid, now, adm, rep, geoVars, mailVars, localVars>>

(***************************************************************************)
(* receive-reply.                                                          *)
(***************************************************************************)
ReplyReq(secret, report_id, reply_text, reply_from) ==
  [secret |-> secret, report_id |-> report_id, reply_text |-> reply_text,
   reply_from |-> reply_from]

ReplyRequests(maxUuid) ==
  UNION { { ReplyReq("good", id, Str("reply", 40), Str("fcc", 30)),
            ReplyReq("good", id, Str("reply again", 6000), NULL),
            ReplyReq("good", id, Str("", 0), Str("fcc", 30)),
            ReplyReq("bad", id, Str("reply", 40), Str("fcc", 30)) } : id \in 0..maxUuid }

LifeReplyRequests(maxUuid) ==
  { ReplyReq("good", id, Str("reply", 40), Str("fcc", 30)) : id \in 1..maxUuid }
    \cup { ReplyReq("bad", 1, Str("reply", 40), Str("fcc", 30)) }

replyResp(status, error) == [status |-> status, error |-> error]

IdleRep ==
  [pc |-> "idle", req |-> ReplyReq("", NoId, NULL, NULL), status |-> "",
   resp |-> replyResp(0, "")]

\* Variant of substring that returns the whole string.
SubstringWhole(s, n) == s

\* s.substring(0, n)
Substring(s, n) ==
  IF "chars" \in DOMAIN s THEN substring(s, 0, n) ELSE Str(s.tag, Min(s.len, n))

\* Variant of the status test that lets a reply move any report to replied.
RepliesAdvanceAny(status) == TRUE

\* report.status === 'sent' || report.status === 'replied'
RepliesAdvance(status) == status = "sent" \/ status = "replied"

\* Variant of the start of receive-reply that does not compare the secret.
ReplyStartAnySecret(r, req) ==
  /\ rep[r].pc \in {"idle", "done"}
  /\ LET s == [IdleRep EXCEPT !.req = req]
         done(resp) == [s EXCEPT !.pc = "done", !.resp = resp]
     IN rep' = [rep EXCEPT ![r] =
          IF req.report_id = NoId THEN done(replyResp(400, "report_id required"))
          ELSE IF ~Truthy(req.reply_text) THEN done(replyResp(400, "reply_text required"))
          ELSE [s EXCEPT !.pc = "fetch"]]
  /\ UNCHANGED <<reports, media, nextUuid, now, adm, ops, geoVars, mailVars, localVars>>

\* receive-reply: secret and payload checks; the invocation as they leave it.
ReplyStarted(req) ==
  LET s == [IdleRep EXCEPT !.req = req]
      done(resp) == [s EXCEPT !.pc = "done", !.resp = resp]
  IN IF req.secret # "good" THEN done(replyResp(401, "Unauthorized"))
     ELSE IF req.report_id = NoId THEN done(replyResp(400, "report_id required"))
     ELSE IF ~Truthy(req.reply_text) THEN done(replyResp(400, "reply_text required"))
     ELSE [s EXCEPT !.pc = "fetch"]

\* receive-reply called on its own.
ReplyStart(r, req) ==
  /\ rep[r].pc \in {"idle", "done"}
  /\ rep' = [rep EXCEPT ![r] = ReplyStarted(req)]
  /\ UNCHANGED <<reports, media, nextUuid, now, adm, ops, geoVars, mailVars, localVars>>

\* receive-reply: select of id and status.
ReplyFetch(r) ==
  /\ rep[r].pc = "fetch"
  /\ rep' = [rep EXCEPT ![r] =
       IF rep[r].req.report_id \notin DOMAIN reports
       THEN [rep[r] EXCEPT !.pc = "done", !.resp = replyResp(404, "Report not found")]
       ELSE [rep[r] EXCEPT !.pc = "update",
                           !.status = reports[rep[r].req.report_id].status]]
  /\ UNCHANGED <<reports, media, nextUuid, now, adm, ops, geoVars, mailVars, localVars>>

\* Variant of the update that keeps the reply a report already has.
ReplyUpdateKeepsFirst(r, outcomes) ==
  /\ rep[r].pc = "update"
  /\ LET req == rep[r].req
         base == [reply_text |-> Substring(req.reply_text, 5000),
                  reply_from |-> Substring(IF Truthy(req.reply_from) THEN req.reply_from
                                           ELSE Str("unknown", 7), 200),
                  replied_at |-> now]
         updates == IF rep[r].status = "replied"
                    THEN [status |-> "replied"]
                    ELSE IF RepliesAdvance(rep[r].status)
                    THEN [f \in DOMAIN base \cup {"status"} |->
                            IF f = "status" THEN "replied" ELSE base[f]]
                    ELSE base
     IN \E u \in outcomes :
          IF u = "error"
          THEN /\ rep' = [rep EXCEPT ![r].pc = "done",
                                     ![r].resp = replyResp(500, "Failed to update report")]
               /\ UNCHANGED reports
          ELSE /\ reports' = UpdateReport(req.report_id, updates)
               /\ rep' = [rep EXCEPT ![r].pc = "done", ![r].resp = replyResp(200, "")]
  /\ UNCHANGED <<media, nextUuid, now, adm, ops, geoVars, mailVars, localVars>>

\* Variant of the update that stores the sender as it came.
ReplyUpdateSenderWhole(r, outcomes) ==
  /\ rep[r].pc = "update"
  /\ LET req == rep[r].req
         base == [reply_text |-> Substring(req.reply_text, 5000),
                  reply_from |-> IF Truthy(req.reply_from) THEN req.reply_from
                                 ELSE Str("unknown", 7),
                  replied_at |-> now]
         updates == IF RepliesAdvance(rep[r].status)
                    THEN [f \in DOMAIN base \cup {"status"} |->
                            IF f = "status" THEN "replied" ELSE base[f]]
                    ELSE base
     IN \E u \in outcomes :
          IF u = "error"
          THEN /\ rep' = [rep EXCEPT ![r].pc = "done",
                                     ![r].resp = replyResp(500, "Failed to update report")]
               /\ UNCHANGED reports
          ELSE /\ reports' = UpdateReport(req.report_id, updates)
               /\ rep' = [rep EXCEPT ![r].pc = "done", ![r].resp = replyResp(200, "")]
  /\ UNCHANGED <<media, nextUuid, now, adm, ops, geoVars, mailVars, localVars>>

\* receive-reply: the update of the reply columns, and of the status after sent.
ReplyUpdate(r, outcomes) ==
  /\ rep[r].pc = "update"
  /\ LET req == rep[r].req
         base == [reply_text |-> Substring(req.reply_text, 5000),
                  reply_from |-> Substring(IF Truthy(req.reply_from) THEN req.reply_from
                                           ELSE Str("unknown", 7), 200),
                  replied_at |-> now]
         updates == IF RepliesAdvance(rep[r].status)
                    THEN [f \in DOMAIN base \cup {"status"} |->
                            IF f = "status" THEN "replied" ELSE base[f]]
                    ELSE base
     IN \E u \in outcomes :
          IF u = "error"
          THEN /\ rep' = [rep EXCEPT ![r].pc = "done",
                                     ![r].resp = replyResp(500, "Failed to update report")]
               /\ UNCHANGED reports
          ELSE /\ reports' = UpdateReport(req.report_id, updates)
               /\ rep' = [rep EXCEPT ![r].pc = "done", ![r].resp = replyResp(200, "")]
  /\ UNCHANGED <<media, nextUuid, now, adm, ops, geoVars, mailVars, localVars>>

(***************************************************************************)
(* reverse-geocode.                                                        *)
(***************************************************************************)
CACHE_DECIMALS == 5

\* The throttle's interval: elapsed < 1000.
ThrottleMs == 1000

\* Date 0 on the clock of the model, which starts with the instance: the
\* initial value of lastNominatimCall.
EpochOnClock == -1000000

\* roundTo(num, 5) of a coordinate in microdegrees, in units of 1e-5
\* degrees: Math.round(num * 1e5).  The inputs used do not end in 5, where
\* the double product decides the direction.
roundTo(num, decimals) ==
  LET factor == 10 ^ (6 - decimals) IN (2 * num + factor) \div (2 * factor)

\* The answer of Nominatim: the fetch throws, or a status and the
\* display_name split at its commas (empty when there is none).
NominatimResponse(thrown, ok, display_name) ==
  [thrown |-> thrown, ok |-> ok, display_name |-> display_name]

\* Before the fetch has answered.
NoNominatimResponse == NominatimResponse(FALSE, FALSE, <<"none">>)

\* The fetch throws; the status is not OK; resp.json() throws; there is no
\* display_name; there is one; there is one that is a single space.
NominatimResponses ==
  { NominatimResponse(TRUE, FALSE, <<>>),
    NominatimResponse(TRUE, TRUE, <<>>),
    NominatimResponse(FALSE, FALSE, <<>>),
    NominatimResponse(FALSE, TRUE, <<>>),
    NominatimResponse(FALSE, TRUE, <<"Carrer Nou 1", "Girona", "Girones", "Catalunya">>),
    NominatimResponse(FALSE, TRUE, <<" ">>) }

\* data.display_name.split(',').slice(0, 3).join(', ').trim(), or ''.
addressLabel(display_name) ==
  LET parts == SubSeq(display_name, 1, Min(3, Len(display_name)))
  IN IF Len(parts) = 1 /\ parts[1] \in {"", " "} THEN <<>> ELSE parts

jsonResp(address_label, status) == [status |-> status, address_label |-> address_label]

IdleGeo ==
  [pc |-> "idle", lat |-> JMissing, lon |-> JMissing, roundedLat |-> 0,
   roundedLon |-> 0, wakeAt |-> 0, label |-> <<>>, called |-> FALSE,
   nominatim |-> NoNominatimResponse, resp |-> jsonResp(<<>>, 0)]

\* The request bodies of the geocode specification: two points of one
\* rounded key, one of the next key, and a body without lat.
GeoRequests ==
  { [lat |-> JNum(41979401), lon |-> JNum(2821401)],
    [lat |-> JNum(41979404), lon |-> JNum(2821402)],
    [lat |-> JNum(41979416), lon |-> JNum(2821401)],
    [lat |-> JMissing, lon |-> JNum(2821401)] }

\* The fetch of Nominatim starts: one more upstream call, at time now.
CallNominatim(g) ==
  Append(nominatimCalls, [key |-> <<geo[g].roundedLat, geo[g].roundedLon>>, at |-> now])

\* reverse-geocode: the body, the type check and the rounding.
GeoStart(g, body) ==
  /\ geo[g].pc \in {"idle", "done"}
  /\ geo' = [geo EXCEPT ![g] =
       IF body.lat.type # "number" \/ body.lon.type # "number"
       THEN [IdleGeo EXCEPT !.pc = "done", !.lat = body.lat, !.lon = body.lon,
                            !.resp = jsonResp(<<>>, 400)]
       ELSE [IdleGeo EXCEPT !.pc = "cache", !.lat = body.lat, !.lon = body.lon,
                            !.roundedLat = roundTo(body.lat.v, CACHE_DECIMALS),
                            !.roundedLon = roundTo(body.lon.v, CACHE_DECIMALS)]]
  /\ UNCHANGED <<reports, media, nextUuid, now, adm, ops, rep, mailVars,
                 geocode_cache, lastNominatimCall, nominatimCalls, localVars>>

\* Variant of the cache check that always misses.
GeoCacheCheckAlwaysMisses(g) ==
  /\ geo[g].pc = "cache"
  /\ LET elapsed == now - lastNominatimCall IN
     IF elapsed < ThrottleMs
     THEN /\ geo' = [geo EXCEPT ![g].pc = "sleep",
                                ![g].wakeAt = now + (ThrottleMs - elapsed)]
          /\ UNCHANGED <<lastNominatimCall, nominatimCalls>>
     ELSE /\ Len(nominatimCalls) < MaxGeoCalls
          /\ lastNominatimCall' = now
          /\ nominatimCalls' = CallNominatim(g)
          /\ geo' = [geo EXCEPT ![g].pc = "fetch", ![g].called = TRUE]
  /\ UNCHANGED <<reports, media, nextUuid, now, adm, ops, rep, mailVars, geocode_cache, localVars>>

(***************************************************************************)
(* reverse-geocode: the select on geocode_cache; on a hit the response; on *)
(* a miss the throttle, which sleeps or sets lastNominatimCall and starts  *)
(* the fetch.                                                              *)
(***************************************************************************)
GeoCacheCheck(g) ==
  /\ geo[g].pc = "cache"
  /\ LET key == <<geo[g].roundedLat, geo[g].roundedLon>>
         elapsed == now - lastNominatimCall
     IN IF key \in DOMAIN geocode_cache
        THEN /\ geo' = [geo EXCEPT ![g].pc = "done",
                                   ![g].resp = jsonResp(geocode_cache[key], 200)]
             /\ UNCHANGED <<lastNominatimCall, nominatimCalls>>
        ELSE IF elapsed < ThrottleMs
        THEN /\ geo' = [geo EXCEPT ![g].pc = "sleep",
                                   ![g].wakeAt = now + (ThrottleMs - elapsed)]
             /\ UNCHANGED <<lastNominatimCall, nominatimCalls>>
        ELSE /\ Len(nominatimCalls) < MaxGeoCalls
             /\ lastNominatimCall' = now
             /\ nominatimCalls' = CallNominatim(g)
             /\ geo' = [geo EXCEPT ![g].pc = "fetch", ![g].called = TRUE]
  /\ UNCHANGED <<reports, media, nextUuid, now, adm, ops, rep, mailVars, geocode_cache, localVars>>

\* reverse-geocode: the timer of the throttle fires; lastNominatimCall is
\* set and the fetch starts.
GeoWake(g) ==
  /\ geo[g].pc = "sleep"
  /\ now >= geo[g].wakeAt
  /\ Len(nominatimCalls) < MaxGeoCalls
  /\ lastNominatimCall' = now
  /\ nominatimCalls' = CallNominatim(g)
  /\ geo' = [geo EXCEPT ![g].pc = "fetch", ![g].called = TRUE]
  /\ UNCHANGED <<reports, media, nextUuid, now, adm, ops, rep, mailVars, geocode_cache, localVars>>

\* Variant of the reading of the answer that passes a failed status on.
GeoFetchPassesStatusOn(g, r) ==
  /\ geo[g].pc = "fetch"
  /\ geo' = [geo EXCEPT ![g] =
       IF r.thrown
       THEN [geo[g] EXCEPT !.pc = "done", !.nominatim = r, !.resp = jsonResp(<<>>, 200)]
       ELSE IF ~r.ok
       THEN [geo[g] EXCEPT !.pc = "done", !.nominatim = r, !.resp = jsonResp(<<>>, 502)]
       ELSE IF addressLabel(r.display_name) # <<>>
       THEN [geo[g] EXCEPT !.pc = "upsert", !.nominatim = r,
                           !.label = addressLabel(r.display_name)]
       ELSE [geo[g] EXCEPT !.pc = "done", !.nominatim = r, !.resp = jsonResp(<<>>, 200)]]
  /\ UNCHANGED <<reports, media, nextUuid, now, adm, ops, rep, mailVars,
                 geocode_cache, lastNominatimCall, nominatimCalls, localVars>>

\* Variant of the reading of the answer that stores whatever label an OK
\* answer gives.
GeoFetchCachesAnyLabel(g, r) ==
  /\ geo[g].pc = "fetch"
  /\ geo' = [geo EXCEPT ![g] =
       IF r.thrown \/ ~r.ok
       THEN [geo[g] EXCEPT !.pc = "done", !.nominatim = r, !.resp = jsonResp(<<>>, 200)]
       ELSE [geo[g] EXCEPT !.pc = "upsert", !.nominatim = r,
                           !.label = addressLabel(r.display_name)]]
  /\ UNCHANGED <<reports, media, nextUuid, now, adm, ops, rep, mailVars,
                 geocode_cache, lastNominatimCall, nominatimCalls, localVars>>

\* reverse-geocode: the answer of Nominatim and the address label.
GeoFetch(g, r) ==
  /\ geo[g].pc = "fetch"
  /\ geo' = [geo EXCEPT ![g] =
       IF r.thrown \/ ~r.ok
       THEN [geo[g] EXCEPT !.pc = "done", !.nominatim = r, !.resp = jsonResp(<<>>, 200)]
       ELSE IF addressLabel(r.display_name) # <<>>
       THEN [geo[g] EXCEPT !.pc = "upsert", !.nominatim = r,
                           !.label = addressLabel(r.display_name)]
       ELSE [geo[g] EXCEPT !.pc = "done", !.nominatim = r, !.resp = jsonResp(<<>>, 200)]]
  /\ UNCHANGED <<reports, media, nextUuid, now, adm, ops, rep, mailVars,
                 geocode_cache, lastNominatimCall, nominatimCalls, localVars>>

\* reverse-geocode: the upsert into geocode_cache (its result is not read)
\* and the response.
GeoUpsert(g, outcomes) ==
  /\ geo[g].pc = "upsert"
  /\ \E u \in outcomes :
       geocode_cache' = IF u = "ok"
                        THEN Extend(geocode_cache,
                                    <<geo[g].roundedLat, geo[g].roundedLon>>, geo[g].label)
                        ELSE geocode_cache
  /\ geo' = [geo EXCEPT ![g].pc = "done", ![g].resp = jsonResp(geo[g].label, 200)]
  /\ UNCHANGED <<reports, media, nextUuid, now, adm, ops, rep, mailVars,
                 lastNominatimCall, nominatimCalls, localVars>>

(***************************************************************************)
(* The email worker (src/vite.config.ts) and its text functions.           *)
(***************************************************************************)
\* The text form of a report id: a version-4 UUID in lower case.
UuidText(id) ==
  Chars(<<48, 48, 48, 48, 48, 48, 48, 48, 45, 48, 48, 48, 48, 45, 52, 48, 48, 48, 45, 56, 48,
          48, 48, 45, 48, 48, 48, 48, 48, 48, 48, 48, 48, 48>> \o <<48 + (id \div 10),
          48 + (id % 10)>>, 0)

\* What the datastore reads from a text compared with the uuid column id:
\* the report id it is the text form of, in either case of the letters, or
\* -1 for a text no stored id can equal.
UuidOf(t) ==
  LET tens == CharAt(t, 34) - 48
      units == CharAt(t, 35) - 48
      id == 10 * tens + units
  IN IF /\ t.len = 36 /\ tens \in 0..9 /\ units \in 0..9 /\ id >= 1
        /\ MatchAt(t, 0, UuidText(id))
     THEN id ELSE -1

NoMatch == Chars(<<>>, 0)

\* Variant of the pattern of the recipient with the class [0-9-].
plusMatchDigits(toAddress) ==
  LET pre == Chars(<<105, 110, 102, 111, 43>>, 0)
      suf == Chars(<<64, 103, 105, 114, 111, 110, 97, 110, 101, 116, 97, 46, 99, 97, 116>>, 0)
      at == toAddress.len - suf.len
  IN IF /\ at > pre.len
        /\ MatchAt(toAddress, 0, pre)
        /\ MatchAt(toAddress, at, suf)
        /\ \A i \in pre.len..(at - 1) : CharAt(toAddress, i) \in (48..57) \cup {45}
     THEN substring(toAddress, pre.len, at)
     ELSE NoMatch

\* Variant of the pattern of the recipient that takes any domain.
plusMatchAnyDomain(toAddress) ==
  LET pre == Chars(<<105, 110, 102, 111, 43>>, 0)
      at == RunEnd(toAddress, pre.len, "id")
  IN IF /\ MatchAt(toAddress, 0, pre)
        /\ at > pre.len
        /\ CharAt(toAddress, at) = 64
     THEN substring(toAddress, pre.len, at)
     ELSE NoMatch

\* toAddress.match(/^info\+([a-f0-9-]+)@gironaneta\.cat$/i): group 1, or
\* NoMatch.
plusMatch(toAddress) ==
  LET pre == Chars(<<105, 110, 102, 111, 43>>, 0)
      suf == Chars(<<64, 103, 105, 114, 111, 110, 97, 110, 101, 116, 97, 46, 99, 97, 116>>, 0)
      at == toAddress.len - suf.len
  IN IF /\ at > pre.len
        /\ MatchAt(toAddress, 0, pre)
        /\ MatchAt(toAddress, at, suf)
        /\ \A i \in pre.len..(at - 1) : IsIdChar(CharAt(toAddress, i))
     THEN substring(toAddress, pre.len, at)
     ELSE NoMatch

\* str.replace(/=\r?\n/g, "") on the characters from index i (counted from 1).
RECURSIVE SoftBreaksRemoved(_, _)
SoftBreaksRemoved(c, i) ==
  IF i > Len(c) THEN <<>>
  ELSE IF c[i] = 61 /\ i + 1 <= Len(c) /\ c[i + 1] = 10
  THEN SoftBreaksRemoved(c, i + 2)
  ELSE IF c[i] = 61 /\ i + 2 <= Len(c) /\ c[i + 1] = 13 /\ c[i + 2] = 10
  THEN SoftBreaksRemoved(c, i + 3)
  ELSE <<c[i]>> \o SoftBreaksRemoved(c, i + 1)

\* Variant of the second replacement that takes the digits 0-9 and A-F only.
RECURSIVE HexUnescapedUpperOnly(_, _)
HexUnescapedUpperOnly(c, i) ==
  IF i > Len(c) THEN <<>>
  ELSE IF /\ c[i] = 61 /\ i + 2 <= Len(c)
          /\ c[i + 1] \in (48..57) \cup (65..70) /\ c[i + 2] \in (48..57) \cup (65..70)
  THEN <<16 * HexVal(c[i + 1]) + HexVal(c[i + 2])>> \o HexUnescapedUpperOnly(c, i + 3)
  ELSE <<c[i]>> \o HexUnescapedUpperOnly(c, i + 1)

\* .replace(/=([0-9A-Fa-f]{2})/g, (_, hex) => String.fromCharCode(parseInt(hex, 16)))
RECURSIVE HexUnescaped(_, _)
HexUnescaped(c, i) ==
  IF i > Len(c) THEN <<>>
  ELSE IF c[i] = 61 /\ i + 2 <= Len(c) /\ IsHex(c[i + 1]) /\ IsHex(c[i + 2])
  THEN <<16 * HexVal(c[i + 1]) + HexVal(c[i + 2])>> \o HexUnescaped(c, i + 3)
  ELSE <<c[i]>> \o HexUnescaped(c, i + 1)

\* Variant of the decoding with that second replacement.
decodeQuotedPrintableUpperOnly(str) ==
  Chars(HexUnescapedUpperOnly(SoftBreaksRemoved(str.chars, 1), 1), More(str))

decodeQuotedPrintable(str) ==
  Chars(HexUnescaped(SoftBreaksRemoved(str.chars, 1), 1), More(str))

\* The value of a character of the base64 alphabet, or -1.
B64Val(c) ==
  IF c \in 65..90 THEN c - 65
  ELSE IF c \in 97..122 THEN c - 71
  ELSE IF c \in 48..57 THEN c + 4
  ELSE IF c = 43 THEN 62
  ELSE IF c = 47 THEN 63
  ELSE -1

\* The bytes of the base64 characters from index i (counted from 1).
RECURSIVE B64Decoded(_, _)
B64Decoded(c, i) ==
  LET left == Len(c) - i + 1
      v(k) == B64Val(c[i + k])
  IN IF left <= 0 THEN <<>>
     ELSE IF left = 2 THEN <<(v(0) * 64 + v(1)) \div 16>>
     ELSE IF left = 3
     THEN LET n == (v(0) * 4096 + v(1) * 64 + v(2)) \div 4
          IN <<n \div 256, n % 256>>
     ELSE LET n == v(0) * 262144 + v(1) * 4096 + v(2) * 64 + v(3)
          IN <<n \div 65536, (n \div 256) % 256, n % 256>> \o B64Decoded(c, i + 4)

\* atob(t): the decoded string, or thrown for a text that is not base64.
atob(t) ==
  LET c0 == t.chars
      n0 == Len(c0)
      c == IF n0 % 4 = 0 /\ n0 >= 2 /\ c0[n0] = 61 /\ c0[n0 - 1] = 61
           THEN SubSeq(c0, 1, n0 - 2)
           ELSE IF n0 % 4 = 0 /\ n0 >= 1 /\ c0[n0] = 61
           THEN SubSeq(c0, 1, n0 - 1)
           ELSE c0
  IN IF \/ More(t) > 0
        \/ Len(c) % 4 = 1
        \/ \E k \in 1..Len(c) : B64Val(c[k]) = -1
     THEN [thrown |-> TRUE, text |-> t]
     ELSE [thrown |-> FALSE, text |-> Chars(B64Decoded(c, 1), 0)]

NotSpace(c) == ~IsSpace(c)

\* body.replace(/\s/g, "")
SpaceRemoved(t) == Chars(SelectSeq(t.chars, NotSpace), More(t))

\* The base64 branch: atob of the body without white space, the body as it
\* is when atob throws.
Base64Decoded(body) ==
  LET r == atob(SpaceRemoved(body)) IN IF r.thrown THEN body ELSE r.text

IsQuotedPrintable(t) ==
  HeaderTest(t, Chars(<<99, 111, 110, 116, 101, 110, 116, 45, 116, 114, 97, 110, 115, 102, 101,
                        114, 45, 101, 110, 99, 111, 100, 105, 110, 103, 58>>, 0), Chars(<<113,
                        117, 111, 116, 101, 100, 45, 112, 114, 105, 110, 116, 97, 98, 108,
                        101>>, 0))

IsBase64(t) == HeaderTest(t, Chars(<<99, 111, 110, 116, 101, 110, 116, 45, 116, 114, 97, 110,
                                     115, 102, 101, 114, 45, 101, 110, 99, 111, 100, 105, 110,
                                     103, 58>>, 0), Chars(<<98, 97, 115, 101, 54, 52>>, 0))

decodeEmailPart(part) ==
  LET headerEnd == indexOf(part, Chars(<<13, 10, 13, 10>>, 0))
      altHeaderEnd == indexOf(part, Chars(<<10, 10>>, 0))
      splitPos == IF headerEnd # -1 THEN headerEnd + 4
                  ELSE IF altHeaderEnd # -1 THEN altHeaderEnd + 2 ELSE 0
      headers == substring(part, 0, splitPos)
      body0 == substring(part, splitPos, part.len)
      body1 == IF IsQuotedPrintable(headers) THEN decodeQuotedPrintable(body0) ELSE body0
      body2 == IF IsBase64(headers) THEN Base64Decoded(body1) ELSE body1
  IN trim(body2)

decodeBody(body, fullRaw) ==
  IF IsQuotedPrintable(fullRaw) THEN trim(decodeQuotedPrintable(body))
  ELSE IF IsBase64(fullRaw)
  THEN LET r == atob(SpaceRemoved(body)) IN IF r.thrown THEN trim(body) ELSE trim(r.text)
  ELSE trim(body)

\* c[i], or -1 outside the sequence (i counted from 1).
At(c, i) == IF i \in 1..Len(c) THEN c[i] ELSE -1

\* Whether the characters of the lower-case sequence p stand in c from i on.
SeqMatch(c, i, p, fold) ==
  \A k \in 1..Len(p) : (IF fold THEN Lower(At(c, i + k - 1)) ELSE At(c, i + k - 1)) = p[k]

\* The replacements of stripHtml in their order: what each puts in.
HtmlReplacements ==
  << [kind |-> "br", by |-> <<10>>],
     [kind |-> "/p", by |-> <<10, 10>>],
     [kind |-> "tag", by |-> <<>>],
     [kind |-> "nbsp", by |-> <<32>>],
     [kind |-> "amp", by |-> <<38>>],
     [kind |-> "lt", by |-> <<60>>],
     [kind |-> "gt", by |-> <<62>>],
     [kind |-> "quot", by |-> <<34>>],
     [kind |-> "newlines", by |-> <<10, 10>> ] >>

\* The length of the match of replacement kind at index i of c, 0 for none.
MatchLen(kind, c, i) ==
  LET after(j, In(_)) ==
        LET stops == {k \in j..Len(c) : ~In(c[k])}
        IN IF stops = {} THEN Len(c) + 1 ELSE First(stops)
      literal(p, fold) == IF SeqMatch(c, i, p, fold) THEN Len(p) ELSE 0
  IN CASE kind = "br" ->
            LET j == after(i + 3, IsSpace)
                k == IF At(c, j) = 47 THEN j + 1 ELSE j
            IN IF SeqMatch(c, i, <<60, 98, 114>>, TRUE) /\ At(c, k) = 62 THEN k - i + 1 ELSE 0
       [] kind = "/p" -> literal(<<60, 47, 112, 62>>, TRUE)
       [] kind = "tag" ->
            LET k == after(i + 1, LAMBDA x : x # 62)
            IN IF c[i] = 60 /\ k > i + 1 /\ k <= Len(c) THEN k - i + 1 ELSE 0
       [] kind = "nbsp" -> literal(<<38, 110, 98, 115, 112, 59>>, FALSE)
       [] kind = "amp" -> literal(<<38, 97, 109, 112, 59>>, FALSE)
       [] kind = "lt" -> literal(<<38, 108, 116, 59>>, FALSE)
       [] kind = "gt" -> literal(<<38, 103, 116, 59>>, FALSE)
       [] kind = "quot" -> literal(<<38, 113, 117, 111, 116, 59>>, FALSE)
       [] kind = "newlines" ->
            LET k == after(i, LAMBDA x : x = 10)
            IN IF k - i >= 3 THEN k - i ELSE 0

\* c.replace(/.../g, by) for one replacement, from index i (counted from 1).
RECURSIVE Replaced(_, _, _)
Replaced(c, i, r) ==
  IF i > Len(c) THEN <<>>
  ELSE LET n == MatchLen(r.kind, c, i)
       IN IF n > 0 THEN r.by \o Replaced(c, i + n, r)
          ELSE <<c[i]>> \o Replaced(c, i + 1, r)

\* The first n replacements of stripHtml applied one after the other.
RECURSIVE ReplacedThrough(_, _)
ReplacedThrough(c, n) ==
  IF n = 0 THEN c ELSE Replaced(ReplacedThrough(c, n - 1), 1, HtmlReplacements[n])

stripHtml(html) ==
  trim(Chars(ReplacedThrough(html.chars, Len(HtmlReplacements)), More(html)))

\* raw.match(/boundary="?([^\s";\r\n]+)"?/i): group 1, or NoMatch.
boundaryMatch(raw) ==
  LET key == Chars(<<98, 111, 117, 110, 100, 97, 114, 121, 61>>, 0)
      from(i) == IF CharAt(raw, i + key.len) = 34 THEN i + key.len + 1 ELSE i + key.len
      hits == {i \in 0..(Len(raw.chars) - 1) :
                 /\ MatchAt(raw, i, key)
                 /\ RunEnd(raw, from(i), "boundary") > from(i)}
  IN IF hits = {} THEN NoMatch
     ELSE LET i == First(hits)
          IN substring(raw, from(i), RunEnd(raw, from(i), "boundary"))

IsTextPlain(part) == HeaderTest(part, Chars(<<99, 111, 110, 116, 101, 110, 116, 45, 116, 121,
                                              112, 101, 58>>, 0), Chars(<<116, 101, 120, 116,
                                              47, 112, 108, 97, 105, 110>>, 0))

IsTextHtml(part) == HeaderTest(part, Chars(<<99, 111, 110, 116, 101, 110, 116, 45, 116, 121,
                                             112, 101, 58>>, 0), Chars(<<116, 101, 120, 116, 47,
                                             104, 116, 109, 108>>, 0))

extractPlainText(raw) ==
  LET boundary == boundaryMatch(raw)
      parts == split(raw, Concat(Chars(<<45, 45>>, 0), boundary))
      plain == {k \in 1..Len(parts) : IsTextPlain(parts[k])}
      html == {k \in 1..Len(parts) : IsTextHtml(parts[k])}
      headerBodySplit == indexOf(raw, Chars(<<13, 10, 13, 10>>, 0))
      altSplit == indexOf(raw, Chars(<<10, 10>>, 0))
  IN IF boundary # NoMatch /\ plain # {} THEN decodeEmailPart(parts[First(plain)])
     ELSE IF boundary # NoMatch /\ html # {}
     THEN stripHtml(decodeEmailPart(parts[First(html)]))
     ELSE IF headerBodySplit = -1
     THEN IF altSplit = -1 THEN substring(raw, 0, 2000)
          ELSE decodeBody(substring(raw, altSplit + 2, raw.len), raw)
     ELSE decodeBody(substring(raw, headerBodySplit + 4, raw.len), raw)

\* An inbound message: the envelope addresses, the raw RFC 822 text, and
\* the text its sender wrote (body), which the worker does not see.
Message(to, from, raw, body) == [to |-> to, from |-> from, raw |-> raw, body |-> body]

\* `info+${report.id}@gironaneta.cat` for the text form of report.id
ReplyTo(idText) ==
  Concat(Concat(Chars(<<105, 110, 102, 111, 43>>, 0), idText),
         Chars(<<64, 103, 105, 114, 111, 110, 97, 110, 101, 116, 97, 46, 99, 97, 116>>, 0))

\* The reply address of a report: info+<id>@gironaneta.cat
ReplyAddress(id) == ReplyTo(UuidText(id))

\* The lower-case hex digits 0-9 and a-f.
HexLower == (48..57) \cup (97..102)

\* A version-4 UUID in the text form of the datastore:
\* 3f9a0c1e-7b2d-4e8f-9a6b-5c4d3e2f1a0b
IdTemplate ==
  <<51, 102, 57, 97, 48, 99, 49, 101, 45, 55, 98, 50, 100, 45, 52, 101, 56, 102,
    45, 57, 97, 54, 98, 45, 53, 99, 52, 100, 51, 101, 50, 102, 49, 97, 48, 98>>

\* The identifiers that start with any MaxIdDigits hex digits and go on as
\* the template.
ReportIdTexts ==
  {Chars(d \o SubSeq(IdTemplate, MaxIdDigits + 1, Len(IdTemplate)), 0) :
     d \in [1..MaxIdDigits -> HexLower]}

FccSender == Chars(<<105, 110, 99, 105, 100, 101, 110, 99, 105, 101, 115, 64, 102, 99, 99, 46,
                     101, 115>>, 0)

\* Subject: Re: Incidencia CRLF CRLF Rebut. CRLF
PlainRaw == Chars(<<83, 117, 98, 106, 101, 99, 116, 58, 32, 82, 101, 58, 32, 73, 110, 99, 105,
                    100, 101, 110, 99, 105, 97, 13, 10, 13, 10, 82, 101, 98, 117, 116, 46, 13,
                    10>>, 0)

PlainBody == Chars(<<82, 101, 98, 117, 116, 46>>, 0)

\* A text/plain message in quoted-printable with an escaped two-byte
\* character and a soft line break:
\*   Content-Type: text/plain; charset=utf-8
\*   Content-Transfer-Encoding: quoted-printable
\*
\*   caf=C3=A9 =
\*   fet
QuotedRaw ==
  Chars(<<67, 111, 110, 116, 101, 110, 116, 45, 84, 121, 112, 101, 58, 32, 116, 101, 120, 116,
          47, 112, 108, 97, 105, 110, 59, 32, 99, 104, 97, 114, 115, 101, 116, 61, 117, 116,
          102, 45, 56, 13, 10, 67, 111, 110, 116, 101, 110, 116, 45, 84, 114, 97, 110, 115, 102,
          101, 114, 45, 69, 110, 99, 111, 100, 105, 110, 103, 58, 32, 113, 117, 111, 116, 101,
          100, 45, 112, 114, 105, 110, 116, 97, 98, 108, 101, 13, 10, 13, 10, 99, 97, 102, 61,
          67, 51, 61, 65, 57, 32, 61, 13, 10, 102, 101, 116, 13, 10>>, 0)

\* caf, the bytes C3 A9, a space, fet
QuotedBody == Chars(<<99, 97, 102, 195, 169, 32, 102, 101, 116>>, 0)

\* A multipart message whose first part is text/plain in quoted-printable
\* and whose second part is text/html:
\*   Content-Type: multipart/alternative; boundary="b1"
\*
\*   --b1
\*   Content-Type: text/plain
\*   Content-Transfer-Encoding: quoted-printable
\*
\*   Fet=21
\*   --b1
\*   Content-Type: text/html
\*
\*   <p>Fet!</p>
\*   --b1--
MultipartRaw ==
  Chars(<<67, 111, 110, 116, 101, 110, 116, 45, 84, 121, 112, 101, 58, 32, 109, 117, 108, 116,
          105, 112, 97, 114, 116, 47, 97, 108, 116, 101, 114, 110, 97, 116, 105, 118, 101, 59,
          32, 98, 111, 117, 110, 100, 97, 114, 121, 61, 34, 98, 49, 34, 13, 10, 13, 10, 45, 45,
          98, 49, 13, 10, 67, 111, 110, 116, 101, 110, 116, 45, 84, 121, 112, 101, 58, 32, 116,
          101, 120, 116, 47, 112, 108, 97, 105, 110, 13, 10, 67, 111, 110, 116, 101, 110, 116,
          45, 84, 114, 97, 110, 115, 102, 101, 114, 45, 69, 110, 99, 111, 100, 105, 110, 103,
          58, 32, 113, 117, 111, 116, 101, 100, 45, 112, 114, 105, 110, 116, 97, 98, 108, 101,
          13, 10, 13, 10, 70, 101, 116, 61, 50, 49, 13, 10, 45, 45, 98, 49, 13, 10, 67, 111,
          110, 116, 101, 110, 116, 45, 84, 121, 112, 101, 58, 32, 116, 101, 120, 116, 47, 104,
          116, 109, 108, 13, 10, 13, 10, 60, 112, 62, 70, 101, 116, 33, 60, 47, 112, 62, 13, 10,
          45, 45, 98, 49, 45, 45, 13, 10>>, 0)

MultipartBody == Chars(<<70, 101, 116, 33>>, 0)

\* A multipart message with a text/html part only:
\*   Content-Type: multipart/mixed; boundary=b2
\*
\*   --b2
\*   Content-Type: text/html
\*
\*   <p>Fet<br/>&amp; net</p>
\*   --b2--
HtmlRaw ==
  Chars(<<67, 111, 110, 116, 101, 110, 116, 45, 84, 121, 112, 101, 58, 32, 109, 117, 108, 116,
          105, 112, 97, 114, 116, 47, 109, 105, 120, 101, 100, 59, 32, 98, 111, 117, 110, 100,
          97, 114, 121, 61, 98, 50, 13, 10, 13, 10, 45, 45, 98, 50, 13, 10, 67, 111, 110, 116,
          101, 110, 116, 45, 84, 121, 112, 101, 58, 32, 116, 101, 120, 116, 47, 104, 116, 109,
          108, 13, 10, 13, 10, 60, 112, 62, 70, 101, 116, 60, 98, 114, 47, 62, 38, 97, 109, 112,
          59, 32, 110, 101, 116, 60, 47, 112, 62, 13, 10, 45, 45, 98, 50, 45, 45, 13, 10>>, 0)

\* Fet LF & net
HtmlBody == Chars(<<70, 101, 116, 10, 38, 32, 110, 101, 116>>, 0)

\* A message in base64 on two lines:
\*   Content-Transfer-Encoding: base64
\*
\*   RmV0
\*   IQ==
Base64Raw == Chars(<<67, 111, 110, 116, 101, 110, 116, 45, 84, 114, 97, 110, 115, 102, 101, 114,
                     45, 69, 110, 99, 111, 100, 105, 110, 103, 58, 32, 98, 97, 115, 101, 54, 52,
                     13, 10, 13, 10, 82, 109, 86, 48, 13, 10, 73, 81, 61, 61, 13, 10>>, 0)

Base64Body == Chars(<<70, 101, 116, 33>>, 0)

\* A message with headers and an empty body.
EmptyRaw == Chars(<<83, 117, 98, 106, 101, 99, 116, 58, 32, 82, 101, 58, 32, 73, 110, 99, 105,
                    100, 101, 110, 99, 105, 97, 13, 10, 13, 10>>, 0)

EmptyBody == Chars(<<>>, 0)

\* A message of one line, without the blank line after the headers.
BareRaw == Chars(<<70, 101, 116>>, 0)

\* A message with a body of 6003 characters: Fet and 6000 full stops.
LongRaw == Chars(<<83, 117, 98, 106, 101, 99, 116, 58, 32, 82, 101, 13, 10, 13, 10, 70, 101,
                   116>>, 6000)

LongBody == Chars(<<70, 101, 116>>, 6000)

\* A sender address of 300 characters.
LongSender == Chars(<<105, 110, 99, 105, 100, 101, 110, 99, 105, 101, 115, 64, 102, 99, 99>>,
                      285)

\* INFO+00000000-0000-4000-8000-000000000001@GironaNeta.cat
UpperCaseAddress == Chars(<<73, 78, 70, 79, 43, 48, 48, 48, 48, 48, 48, 48, 48, 45, 48, 48, 48,
                            48, 45, 52, 48, 48, 48, 45, 56, 48, 48, 48, 45, 48, 48, 48, 48, 48,
                            48, 48, 48, 48, 48, 48, 49, 64, 71, 105, 114, 111, 110, 97, 78, 101,
                            116, 97, 46, 99, 97, 116>>, 0)

\* info+abc@gironaneta.cat
UnknownIdAddress == Chars(<<105, 110, 102, 111, 43, 97, 98, 99, 64, 103, 105, 114, 111, 110, 97,
                            110, 101, 116, 97, 46, 99, 97, 116>>, 0)

\* info@gironaneta.cat
PlainAddress == Chars(<<105, 110, 102, 111, 64, 103, 105, 114, 111, 110, 97, 110, 101, 116, 97,
                        46, 99, 97, 116>>, 0)

\* info+@gironaneta.cat
EmptyIdAddress == Chars(<<105, 110, 102, 111, 43, 64, 103, 105, 114, 111, 110, 97, 110, 101,
                          116, 97, 46, 99, 97, 116>>, 0)

\* info+xyz@gironaneta.cat
OtherLettersAddress == Chars(<<105, 110, 102, 111, 43, 120, 121, 122, 64, 103, 105, 114, 111,
                               110, 97, 110, 101, 116, 97, 46, 99, 97, 116>>, 0)

\* info+00000000-0000-4000-8000-000000000001@example.com
OtherDomainAddress == Chars(<<105, 110, 102, 111, 43, 48, 48, 48, 48, 48, 48, 48, 48, 45, 48,
                              48, 48, 48, 45, 52, 48, 48, 48, 45, 56, 48, 48, 48, 45, 48, 48,
                              48, 48, 48, 48, 48, 48, 48, 48, 48, 49, 64, 101, 120, 97, 109,
                              112, 108, 101, 46, 99, 111, 109>>, 0)

\* xinfo+00000000-0000-4000-8000-000000000001@gironaneta.cat
LongerLocalAddress == Chars(<<120, 105, 110, 102, 111, 43, 48, 48, 48, 48, 48, 48, 48, 48, 45,
                              48, 48, 48, 48, 45, 52, 48, 48, 48, 45, 56, 48, 48, 48, 45, 48,
                              48, 48, 48, 48, 48, 48, 48, 48, 48, 48, 49, 64, 103, 105, 114,
                              111, 110, 97, 110, 101, 116, 97, 46, 99, 97, 116>>, 0)

\* Messages to the reply address of report 1.
RepliesToReport ==
  { Message(ReplyAddress(1), FccSender, QuotedRaw, QuotedBody),
    Message(ReplyAddress(1), FccSender, MultipartRaw, MultipartBody),
    Message(ReplyAddress(1), FccSender, EmptyRaw, EmptyBody) }

\* Messages of every kind of recipient, sender, length and way of carrying
\* the text.
MailMessages ==
  { Message(ReplyAddress(1), FccSender, HtmlRaw, HtmlBody),
    Message(ReplyAddress(1), FccSender, Base64Raw, Base64Body),
    Message(ReplyAddress(1), LongSender, LongRaw, LongBody),
    Message(ReplyAddress(1), Chars(<<>>, 0), EmptyRaw, EmptyBody),
    Message(UpperCaseAddress, Chars(<<>>, 0), BareRaw, BareRaw),
    Message(UnknownIdAddress, FccSender, PlainRaw, PlainBody),
    Message(PlainAddress, FccSender, PlainRaw, PlainBody),
    Message(EmptyIdAddress, FccSender, PlainRaw, PlainBody),
    Message(OtherLettersAddress, FccSender, PlainRaw, PlainBody),
    Message(OtherDomainAddress, FccSender, LongRaw, LongBody),
    Message(LongerLocalAddress, FccSender, PlainRaw, PlainBody) }

\* extractPlainText of the raw text of every message, worked out once.
PlainTextOf ==
  [raw \in {m.raw : m \in RepliesToReport \cup MailMessages} |-> extractPlainText(raw)]

NoMessage == Message(NoMatch, NoMatch, NoMatch, NoMatch)

IdleWrk ==
  [pc |-> "idle", message |-> NoMessage, reportId |-> NoMatch, rawBody |-> NoMatch,
   rejected |-> FALSE, slot |-> 0, res |-> 0]

\* email(): the match of the recipient address.
EmailStart(w, message) ==
  /\ wrk[w].pc \in {"idle", "done"}
  /\ LET m == plusMatch(message.to)
         s == [IdleWrk EXCEPT !.message = message]
     IN wrk' = [wrk EXCEPT ![w] =
          IF m = NoMatch THEN [s EXCEPT !.pc = "done", !.rejected = TRUE]
          ELSE [s EXCEPT !.pc = "read", !.reportId = m]]
  /\ UNCHANGED <<reports, media, nextUuid, now, adm, ops, rep, geoVars, qp, localVars>>

\* email(): the raw message is read and its plain text taken out.
EmailRead(w, outcomes) ==
  /\ wrk[w].pc = "read"
  /\ \E u \in outcomes :
       wrk' = [wrk EXCEPT ![w].pc = "fetch",
                          ![w].rawBody = IF u = "ok"
                                         THEN PlainTextOf[wrk[w].message.raw]
                                         ELSE Chars(<<40, 67, 111, 117, 108, 100, 32, 110, 111,
                                                      116, 32, 112, 97, 114, 115, 101, 32, 101,
                                                      109, 97, 105, 108, 32, 98, 111, 100, 121,
                                                      41>>, 0)]
  /\ UNCHANGED <<reports, media, nextUuid, now, adm, ops, rep, geoVars, qp, localVars>>

\* email(): the POST to receive-reply, which starts that handler in slot r
\* unless the request fails on its way.  The report id travels as text;
\* the request holds the id the datastore will read from it.
EmailFetch(w, r, secrets, outcomes) ==
  /\ wrk[w].pc = "fetch"
  /\ LET replyFrom == IF Truthy(wrk[w].message.from) THEN wrk[w].message.from
                      ELSE Chars(<<117, 110, 107, 110, 111, 119, 110>>, 0)
     IN \E u \in outcomes :
          IF u = "error"
          THEN /\ wrk' = [wrk EXCEPT ![w].pc = "done", ![w].res = -1]
               /\ UNCHANGED rep
          ELSE /\ rep[r].pc \in {"idle", "done"}
               /\ \E secret \in secrets :
                    rep' = [rep EXCEPT ![r] =
                      ReplyStarted(ReplyReq(secret, UuidOf(wrk[w].reportId),
                                            substring(wrk[w].rawBody, 0, 5000),
                                            replyFrom))]
               /\ wrk' = [wrk EXCEPT ![w].pc = "wait", ![w].slot = r]
  /\ UNCHANGED <<reports, media, nextUuid, now, adm, ops, geoVars, qp, localVars>>

\* email(): the answer of receive-reply arrives and is logged; that
\* invocation of receive-reply is over.
EmailDone(w) ==
  /\ wrk[w].pc = "wait"
  /\ rep[wrk[w].slot].pc = "done"
  /\ wrk' = [wrk EXCEPT ![w].pc = "done", ![w].res = rep[wrk[w].slot].resp.status]
  /\ rep' = [rep EXCEPT ![wrk[w].slot] = IdleRep]
  /\ UNCHANGED <<reports, media, nextUuid, now, adm, ops, geoVars, qp, localVars>>

(***************************************************************************)
(* decodeQuotedPrintable on its own: the text to decode and the result.    *)
(***************************************************************************)
\* = LF CR 4 C c g
QpAlphabet == {61, 10, 13, 52, 67, 99, 103}

QpInputs == UNION { [1..n -> QpAlphabet] : n \in 0..MaxQpLen }

IdleQp == [pc |-> "idle", str |-> NoMatch, out |-> NoMatch]

Decode ==
  /\ qp.pc = "in"
  /\ qp' = [qp EXCEPT !.pc = "out", !.out = decodeQuotedPrintable(qp.str)]
  /\ UNCHANGED <<reports, media, nextUuid, now, adm, ops, rep, geoVars, wrk, localVars>>

(***************************************************************************)
(* The reporter's list of own reports (src/src/lib/local-reports.ts).      *)
(***************************************************************************)
\* localStorage.getItem of a key that was never set.
NoItem == [kind |-> "null", items |-> <<>>]

\* The object that ReportFlow hands to saveLocalReport.
LocalReport(id, created_at) ==
  [id |-> id, created_at |-> created_at, status |-> "pending_review",
   lat |-> BaseReq.lat.v, lon |-> BaseReq.lon.v, description |-> ""]

\* JSON.stringify of a list of reports: the text of an array of objects,
\* each with its members in the order of the object's keys.
JSONstringify(list) ==
  [kind |-> "array",
   items |-> [i \in 1..Len(list) |->
                <<"id", list[i].id, "created_at", list[i].created_at,
                  "status", list[i].status, "lat", list[i].lat, "lon", list[i].lon,
                  "description", list[i].description>>]]

\* JSON.parse of such a text.
JSONparse(text) ==
  [i \in 1..Len(text.items) |->
     [id |-> text.items[i][2], created_at |-> text.items[i][4],
      status |-> text.items[i][6], lat |-> text.items[i][8], lon |-> text.items[i][10],
      description |-> text.items[i][12]]]

\* getLocalReports: the parsed item, or [] when there is none.
getLocalReports == IF localStorage.kind = "null" THEN <<>> ELSE JSONparse(localStorage)

\* Variant that cuts the list only after the save that made it too long.
UnshiftedAfterCut(list, report) ==
  <<report>> \o (IF Len(list) > MAX_STORED THEN SubSeq(list, 1, MAX_STORED) ELSE list)

\* reports.unshift(report); if (reports.length > MAX_STORED) reports.length = MAX_STORED
Unshifted(list, report) ==
  LET longer == <<report>> \o list
  IN IF Len(longer) > MAX_STORED THEN SubSeq(longer, 1, MAX_STORED) ELSE longer

(***************************************************************************)
(* ReportFlow, step 3: saveLocalReport of the report just created, with    *)
(* the time of the browser's clock.  setItem can throw (the quota), and    *)
(* then the item stays as it was; here it throws only for the longest      *)
(* text, the list of MAX_STORED reports.                                   *)
(***************************************************************************)
saveLocalReport(outcomes) ==
  /\ localSaves < MaxSaves
  /\ localSaves' = localSaves + 1
  /\ LET list == Unshifted(getLocalReports, LocalReport(localSaves + 1, now))
     IN \E u \in outcomes :
          IF u = "error" /\ Len(list) = MAX_STORED
          THEN UNCHANGED localStorage
          ELSE localStorage' = JSONstringify(list)
  /\ UNCHANGED <<reports, media, nextUuid, now, adm, ops, rep, geoVars, mailVars>>

(***************************************************************************)
(* Initial states and specifications.                                      *)
(***************************************************************************)
InitProgram ==
  /\ geocode_cache = <<>>
  /\ lastNominatimCall = EpochOnClock
  /\ nominatimCalls = <<>>
  /\ geo = [g \in GeoSlots |-> IdleGeo]
  /\ reports = <<>>
  /\ media = {}
  /\ nextUuid = 1
  /\ now = 0
  /\ adm = [a \in AdmSlots |-> IdleAdm]
  /\ ops = [o \in OpSlots |-> IdleOp]
  /\ rep = [r \in RepSlots |-> IdleRep]
  /\ wrk = [w \in WrkSlots |-> IdleWrk]
  /\ localStorage = NoItem
  /\ localSaves = 0

Init == InitProgram /\ qp = IdleQp

\* The texts of quoted-printable decoding, each ready to be decoded.
InitDecode ==
  /\ InitProgram
  /\ qp \in {[pc |-> "in", str |-> Chars(c, 0), out |-> NoMatch] : c \in QpInputs}

NextAdmission ==
  \/ \E a \in OneAdmSlot, req \in AdmRequests : AdmissionStart(a, req, MaxUuid)
  \/ \E a \in OneAdmSlot : AdmissionCount(a, AnyOutcome)
  \/ \E a \in OneAdmSlot : AdmissionInsert(a, AnyOutcome, MaxUuid)
  \/ \E a \in OneAdmSlot : AdmissionSign(a, AnyOutcome)
  \/ \E a \in OneAdmSlot : AdmissionMedia(a, AnyOutcome)
  \/ Tick(TickMs, MaxNow)

SpecAdmission == Init /\ [][NextAdmission]_vars

NextRate ==
  \/ \E a \in OneAdmSlot, req \in RateRequests : AdmissionStart(a, req, MaxRateUuid)
  \/ \E a \in OneAdmSlot : AdmissionCount(a, AnyOutcome)
  \/ \E a \in OneAdmSlot : AdmissionInsert(a, OkOutcome, MaxRateUuid)
  \/ \E a \in OneAdmSlot : AdmissionSign(a, OkOutcome)
  \/ \E a \in OneAdmSlot : AdmissionMedia(a, OkOutcome)
  \/ Tick(RateTickMs, MaxRateNow)

SpecRate == Init /\ [][NextRate]_vars

LifeRequests == { [BaseReq EXCEPT !.photo_count = JNum(2)] }

AuthInputs == {"none", "invalid", "forbidden", "admin"}

LifeAuthInputs == {"invalid", "admin"}

LifeFccResponses ==
  { FccResponse(TRUE, 0, FccText("none", 0)),
    FccResponse(FALSE, 200, FccObject(NULL, NULL, Str("12345", 5), NULL, 19)),
    FccResponse(FALSE, 200, FccObject(Str("E000", 4), Str("error message", 13), NULL, NULL, 36)) }

Next ==
  \/ \E a \in OneAdmSlot, req \in LifeRequests : AdmissionStart(a, req, MaxLifeUuid)
  \/ \E a \in OneAdmSlot : AdmissionCount(a, OkOutcome)
  \/ \E a \in OneAdmSlot : AdmissionInsert(a, OkOutcome, MaxLifeUuid)
  \/ \E a \in OneAdmSlot : AdmissionSign(a, AnyOutcome)
  \/ \E a \in OneAdmSlot : AdmissionMedia(a, OkOutcome)
  \/ \E o \in OpSlots, id \in 1..MaxLifeUuid : OpLoadReport(o, id)
  \/ \E o \in OpSlots, auth \in LifeAuthInputs : DispatchStart(o, auth)
  \/ \E o \in OpSlots : DispatchLoad(o)
  \/ \E o \in OpSlots : DispatchApprove(o)
  \/ \E o \in OpSlots : DispatchDownload(o, AnyOutcome)
  \/ \E o \in OpSlots, r \in LifeFccResponses : DispatchFetch(o, r)
  \/ \E o \in OpSlots : DispatchRevert(o)
  \/ \E o \in OpSlots : DispatchMarkSent(o)
  \/ \E o \in OpSlots : UiRevert(o)
  \/ \E o \in OpSlots : UiReload(o)
  \/ \E o \in OpSlots : OpReject(o)
  \/ \E o \in OpSlots : OpDelete(o)
  \/ \E r \in RepSlots, req \in LifeReplyRequests(MaxLifeUuid) : ReplyStart(r, req)
  \/ \E r \in RepSlots : ReplyFetch(r)
  \/ \E r \in RepSlots : ReplyUpdate(r, OkOutcome)

Spec == Init /\ [][Next]_vars

NextDispatch ==
  \/ \E a \in OneAdmSlot, req \in LifeRequests : AdmissionStart(a, req, MaxDispUuid)
  \/ \E a \in OneAdmSlot : AdmissionCount(a, OkOutcome)
  \/ \E a \in OneAdmSlot : AdmissionInsert(a, OkOutcome, MaxDispUuid)
  \/ \E a \in OneAdmSlot : AdmissionSign(a, AnyOutcome)
  \/ \E a \in OneAdmSlot : AdmissionMedia(a, OkOutcome)
  \/ \E o \in OpSlots, id \in 1..MaxDispUuid : OpLoadReport(o, id)
  \/ \E auth \in AuthInputs : DispatchStart(1, auth)
  \/ DispatchLoad(1)
  \/ DispatchApprove(1)
  \/ DispatchDownload(1, AnyOutcome)
  \/ \E r \in FccResponses : DispatchFetch(1, r)
  \/ DispatchRevert(1)
  \/ DispatchMarkSent(1)
  \/ UiRevert(1)
  \/ \E o \in OpSlots : UiReload(o)
  \/ \E o \in OpSlots : OpReject(o)
  \/ \E o \in OpSlots : OpDelete(o)

SpecDispatch == Init /\ [][NextDispatch]_vars

\* Two admission requests of one submitter at a time.
NextRace ==
  \/ \E a \in AdmSlots, req \in LifeRequests : AdmissionStart(a, req, MaxRaceUuid)
  \/ \E a \in AdmSlots : AdmissionCount(a, OkOutcome)
  \/ \E a \in AdmSlots : AdmissionInsert(a, AnyOutcome, MaxRaceUuid)
  \/ \E a \in AdmSlots : AdmissionSign(a, OkOutcome)
  \/ \E a \in AdmSlots : AdmissionMedia(a, OkOutcome)

SpecRace == Init /\ [][NextRace]_vars

\* One submitter who sends reports until the limit refuses them, and
\* requests with the honeypot filled in, two at a time.
NextHoneypot ==
  \/ \E req \in LifeRequests : AdmissionStart(1, req, MaxHoneyUuid)
  \/ \E a \in AdmSlots, req \in HoneypotRequests : AdmissionStart(a, req, MaxHoneyUuid)
  \/ AdmissionCount(1, OkOutcome)
  \/ AdmissionInsert(1, OkOutcome, MaxHoneyUuid)
  \/ AdmissionSign(1, OkOutcome)
  \/ AdmissionMedia(1, OkOutcome)

SpecHoneypot == Init /\ [][NextHoneypot]_vars

\* Two admin sessions that both dispatch.
NextDouble ==
  \/ \E a \in OneAdmSlot, req \in LifeRequests : AdmissionStart(a, req, MaxDoubleUuid)
  \/ \E a \in OneAdmSlot : AdmissionCount(a, OkOutcome)
  \/ \E a \in OneAdmSlot : AdmissionInsert(a, OkOutcome, MaxDoubleUuid)
  \/ \E a \in OneAdmSlot : AdmissionSign(a, OkOutcome)
  \/ \E a \in OneAdmSlot : AdmissionMedia(a, OkOutcome)
  \/ \E o \in OpSlots, id \in 1..MaxDoubleUuid : OpLoadReport(o, id)
  \/ \E o \in OpSlots : DispatchStart(o, "admin")
  \/ \E o \in OpSlots : DispatchLoad(o)
  \/ \E o \in OpSlots : DispatchApprove(o)
  \/ \E o \in OpSlots : DispatchDownload(o, OkOutcome)
  \/ \E o \in OpSlots, r \in LifeFccResponses : DispatchFetch(o, r)
  \/ \E o \in OpSlots : DispatchRevert(o)
  \/ \E o \in OpSlots : DispatchMarkSent(o)
  \/ \E o \in OpSlots : UiRevert(o)
  \/ \E o \in OpSlots : UiReload(o)

SpecDouble == Init /\ [][NextDouble]_vars

\* Two overlapping lookups on one instance.
NextGeo ==
  \/ \E g \in GeoSlots, body \in GeoRequests : GeoStart(g, body)
  \/ \E g \in GeoSlots : GeoCacheCheck(g)
  \/ \E g \in GeoSlots : GeoWake(g)
  \/ \E g \in GeoSlots, r \in NominatimResponses : GeoFetch(g, r)
  \/ \E g \in GeoSlots : GeoUpsert(g, AnyOutcome)
  \/ Tick(GeoTickMs, MaxGeoNow)

SpecGeo == Init /\ [][NextGeo]_vars

\* The answer of the agency in the reply specification: it accepts.
ReplyFccResponses ==
  { FccResponse(FALSE, 200, FccObject(NULL, NULL, Str("12345", 5), NULL, 19)) }

\* One admin session and the reply webhook on the reports of one submitter.
NextReply ==
  \/ \E a \in OneAdmSlot, req \in LifeRequests : AdmissionStart(a, req, MaxReplyUuid)
  \/ \E a \in OneAdmSlot : AdmissionCount(a, OkOutcome)
  \/ \E a \in OneAdmSlot : AdmissionInsert(a, OkOutcome, MaxReplyUuid)
  \/ \E a \in OneAdmSlot : AdmissionSign(a, OkOutcome)
  \/ \E a \in OneAdmSlot : AdmissionMedia(a, OkOutcome)
  \/ \E id \in 1..MaxReplyUuid : OpLoadReport(1, id)
  \/ DispatchStart(1, "admin")
  \/ DispatchLoad(1)
  \/ DispatchApprove(1)
  \/ DispatchDownload(1, OkOutcome)
  \/ \E r \in ReplyFccResponses : DispatchFetch(1, r)
  \/ DispatchMarkSent(1)
  \/ UiReload(1)
  \/ OpReject(1)
  \/ OpDelete(1)
  \/ \E r \in RepSlots, req \in ReplyRequests(MaxReplyUuid) : ReplyStart(r, req)
  \/ \E r \in RepSlots : ReplyFetch(r)
  \/ \E r \in RepSlots : ReplyUpdate(r, AnyOutcome)

SpecReply == Init /\ [][NextReply]_vars

\* The email worker and receive-reply behind it, for reports that operator 1
\* dispatches and the agency accepts.
NextMail ==
  \/ \E a \in OneAdmSlot, req \in LifeRequests : AdmissionStart(a, req, MaxMailUuid)
  \/ \E a \in OneAdmSlot : AdmissionCount(a, OkOutcome)
  \/ \E a \in OneAdmSlot : AdmissionInsert(a, OkOutcome, MaxMailUuid)
  \/ \E a \in OneAdmSlot : AdmissionSign(a, OkOutcome)
  \/ \E a \in OneAdmSlot : AdmissionMedia(a, OkOutcome)
  \/ \E id \in 1..MaxMailUuid : OpLoadReport(1, id)
  \/ DispatchStart(1, "admin")
  \/ DispatchLoad(1)
  \/ DispatchApprove(1)
  \/ DispatchDownload(1, OkOutcome)
  \/ \E r \in ReplyFccResponses : DispatchFetch(1, r)
  \/ DispatchMarkSent(1)
  \/ \E w \in WrkSlots, m \in MailMessages : EmailStart(w, m)
  \/ \E w \in WrkSlots : EmailRead(w, AnyOutcome)
  \/ \E w \in WrkSlots, r \in RepSlots : EmailFetch(w, r, {"good"}, AnyOutcome)
  \/ \E r \in RepSlots : ReplyFetch(r)
  \/ \E r \in RepSlots : ReplyUpdate(r, AnyOutcome)
  \/ \E w \in WrkSlots : EmailDone(w)

SpecMail == Init /\ [][NextMail]_vars

\* The steps of the worker and of receive-reply when no call fails.
WorkerRuns ==
  \E w \in WrkSlots :
    \/ EmailRead(w, OkOutcome)
    \/ \E r \in RepSlots : EmailFetch(w, r, {"good"}, OkOutcome)
    \/ EmailDone(w)

CallbackRuns == \E r \in RepSlots : ReplyFetch(r) \/ ReplyUpdate(r, OkOutcome)

\* Replies to a dispatched report when every call succeeds and the worker
\* and receive-reply run to completion.
NextMailLive ==
  \/ \E a \in OneAdmSlot, req \in LifeRequests : AdmissionStart(a, req, MaxMailUuid)
  \/ \E a \in OneAdmSlot : AdmissionCount(a, OkOutcome)
  \/ \E a \in OneAdmSlot : AdmissionInsert(a, OkOutcome, MaxMailUuid)
  \/ \E a \in OneAdmSlot : AdmissionSign(a, OkOutcome)
  \/ \E a \in OneAdmSlot : AdmissionMedia(a, OkOutcome)
  \/ \E id \in 1..MaxMailUuid : OpLoadReport(1, id)
  \/ DispatchStart(1, "admin")
  \/ DispatchLoad(1)
  \/ DispatchApprove(1)
  \/ DispatchDownload(1, OkOutcome)
  \/ \E r \in ReplyFccResponses : DispatchFetch(1, r)
  \/ DispatchMarkSent(1)
  \/ \E w \in WrkSlots, m \in RepliesToReport : EmailStart(w, m)
  \/ WorkerRuns
  \/ CallbackRuns

SpecMailLive ==
  Init /\ [][NextMailLive]_vars /\ WF_vars(WorkerRuns) /\ WF_vars(CallbackRuns)

\* The email worker on messages sent to the reply address that the
\* dispatch builds for a report identifier.
NextReplyAddress ==
  \E w \in {v \in WrkSlots : wrk[v].pc \in {"idle", "done"}}, t \in ReportIdTexts :
    EmailStart(w, Message(ReplyTo(t), FccSender, PlainRaw, PlainBody))

SpecReplyAddress == Init /\ [][NextReplyAddress]_vars

\* One browser that saves its reports one after the other as time passes.
NextLocal ==
  \/ saveLocalReport(AnyOutcome)
  \/ Tick(LocalTickMs, MaxLocalNow)

SpecLocal == Init /\ [][NextLocal]_vars

NextDecode == Decode

SpecDecode == InitDecode /\ [][NextDecode]_vars

(***************************************************************************)
(* The lifecycle of a report.                                              *)
(***************************************************************************)
StatusEdges ==
  { <<"pending_review", "approved_sending">>,
    <<"approved_sending", "sent">>,
    <<"approved_sending", "pending_review">>,
    <<"pending_review", "rejected">>,
    <<"approved_sending", "rejected">>,
    <<"pending_review", "deleted">>,
    <<"approved_sending", "deleted">>,
    <<"sent", "replied">>,
    <<"replied", "replied">> }

\* C1: the status of a report changes only along the enumerated edges,
\* whatever the interleaving of dispatch, reject, delete and reply requests.
C1_OnlyEnumeratedEdges ==
  [][\A id \in DOMAIN reports \cap DOMAIN reports' :
       reports'[id].status # reports[id].status
         => <<reports[id].status, reports'[id].status>> \in StatusEdges]_vars

\* The handler of slot o returns in this step, after its approved_sending write.
DispatchReturnsAfterApprove(o) ==
  /\ ops[o].pc \in {"download", "fetch", "revert", "mark_sent"}
  /\ ops'[o].pc \in {"ui_revert", "ui_reload"}

\* C2: a dispatch that got as far as approved_sending and returns without
\* success leaves the report in pending_review with a non-empty last_error.
C2_FailedDispatchReverts ==
  [][\A o \in OpSlots :
       ( /\ DispatchReturnsAfterApprove(o)
         /\ ~ops'[o].resp.success
         /\ ops[o].report_id \in DOMAIN reports' )
       => /\ reports'[ops[o].report_id].status = "pending_review"
          /\ reports'[ops[o].report_id].last_error # NULL
          /\ reports'[ops[o].report_id].last_error.len > 0]_vars

\* C9: the step that follows a successful agency call writes sent, the
\* incident id, the dispatch time and a null last_error; a report that has
\* just become sent has no last_error.
C9_SuccessWritesSent ==
  [][/\ \A o \in OpSlots :
          ( /\ ops[o].pc = "mark_sent"
            /\ ops'[o].pc # "mark_sent"
            /\ ops[o].report_id \in DOMAIN reports )
          => /\ ops'[o].resp.success
             /\ reports'[ops[o].report_id].status = "sent"
             /\ reports'[ops[o].report_id].fcc_incident_id = ops'[o].resp.fcc_incident_id
             /\ reports'[ops[o].report_id].sent_at = now
             /\ reports'[ops[o].report_id].last_error = NULL
     /\ \A id \in DOMAIN reports \cap DOMAIN reports' :
          (reports[id].status # "sent" /\ reports'[id].status = "sent")
            => reports'[id].last_error = NULL]_vars

\* A report that failed once and was then sent: last_error was cleared.
C9_Witness ==
  \E o \in OpSlots :
    /\ ops[o].pc = "ui_reload"
    /\ ops[o].resp.success
    /\ ops[o].resp.fcc_incident_id = Str("12345", 5)
    /\ ops[o].report_id \in DOMAIN reports
    /\ reports[ops[o].report_id].status = "sent"
    /\ reports[ops[o].report_id].last_error = NULL
    /\ reports[ops[o].report_id].fcc_incident_id = Str("12345", 5)
    /\ reports[ops[o].report_id].sent_at = now

\* The agency answered, and the answer is one the dispatch must take as a failure.
FccFailure(r) ==
  /\ ~r.thrown
  /\ \/ r.status < 200 \/ r.status > 299
     \/ r.body.kind # "object"
     \/ r.body.id = Str("E000", 4)

\* C10: an answer with a non-2xx status, a body that is not the expected
\* JSON object, or the error marker makes the dispatch fail (revert and
\* failure result); only an answer with none of these is a success.
C10_FailureResponsesFail ==
  [][\A o \in OpSlots :
       (ops[o].pc = "fetch" /\ ops'[o].pc # "fetch" /\ ~ops'[o].fcc.thrown)
       => (FccFailure(ops'[o].fcc) <=> ops'[o].pc = "revert")]_vars

(***************************************************************************)
(* Admission.                                                              *)
(***************************************************************************)
\* The request passes the field checks of the admission gate.
ValidFields(req) ==
  /\ req.lat.type = "number" /\ req.lat.v >= -90000000 /\ req.lat.v <= 90000000
  /\ req.lon.type = "number" /\ req.lon.v >= -180000000 /\ req.lon.v <= 180000000
  /\ req.photo_count.type = "number"
  /\ req.photo_count.v >= 2 /\ req.photo_count.v <= 2 * MAX_PHOTOS
  /\ req.category \in {"waste", "litter"}

\* Slot a takes a step of its request in this step.
AdmissionSteps(a) == adm'[a] # adm[a]

MediaOf(id) == {m \in media : m.report_id = id}

\* The placeholder rows of a report admitted with photo_count = n2 / 2.
Placeholders(id, n2) == {NewMedia(id, i) : i \in {k \in 0..MAX_PHOTOS : 2 * k < n2}}

\* C3: a request with empty honeypot and valid fields whose distance to the
\* reference point exceeds 5000 m is rejected, and no report row and no
\* media row is added or changed.
C3_GeofenceRejects ==
  [][\A a \in AdmSlots :
       ( /\ AdmissionSteps(a)
         /\ adm'[a].req.honeypot = ""
         /\ ValidFields(adm'[a].req)
         /\ haversineDistance(adm'[a].req.lat.v, adm'[a].req.lon.v,
                              GIRONA_LAT, GIRONA_LON) > SERVICE_RADIUS_M * 1000 )
       => /\ adm'[a].pc = "done"
          /\ adm'[a].resp.status = 400
          /\ adm'[a].resp.upload_urls = <<>>
          /\ reports' = reports
          /\ media' = media]_vars

\* A request 5000.3 m from the reference point, which rounds to 5000, was rejected.
C3_Witness ==
  \E a \in AdmSlots :
    /\ adm[a].pc = "done"
    /\ adm[a].req.lat.v = 42024369
    /\ adm[a].req.honeypot = ""
    /\ adm[a].resp = jsonError("Location is outside the Girona service area", 400)

\* The reports of one submitter inside the trailing hour.
InWindow(ipHash) ==
  {id \in DOMAIN reports : /\ reports[id].ip_hash = ipHash
                           /\ now - reports[id].created_at <= OneHourMs}

\* Slot a gets the answer of its count query in this step.
CountStep(a) == adm[a].pc = "count" /\ adm'[a].pc # "count"

\* C4 as stated: with 10 reports of the hash inside the trailing hour the
\* admission is rejected with 429 and creates nothing; with fewer it is let
\* through to the insert.
C4_RateLimitAsStated ==
  [][\A a \in AdmSlots :
       CountStep(a) =>
         IF Cardinality(InWindow(adm[a].ipHash)) >= RATE_LIMIT_PER_HOUR
         THEN /\ adm'[a].pc = "done"
              /\ adm'[a].resp.status = 429
              /\ reports' = reports /\ media' = media
         ELSE adm'[a].pc = "insert"]_vars

\* C4, amended: the same whenever the count query returns the count; when
\* it returns none the admission is let through.
C4_RateLimitWhenCounted ==
  [][\A a \in AdmSlots :
       CountStep(a) =>
         /\ adm'[a].count \in {NoCount, Cardinality(InWindow(adm[a].ipHash))}
         /\ reports' = reports /\ media' = media
         /\ IF /\ adm'[a].count # NoCount
               /\ Cardinality(InWindow(adm[a].ipHash)) >= RATE_LIMIT_PER_HOUR
            THEN adm'[a].pc = "done" /\ adm'[a].resp.status = 429
            ELSE adm'[a].pc = "insert"]_vars

\* The eleventh request of a submitter inside one hour was rejected.
C4_Witness ==
  \E a \in AdmSlots :
    /\ adm[a].pc = "done"
    /\ adm[a].resp.status = 429
    /\ adm[a].count = RATE_LIMIT_PER_HOUR
    /\ Cardinality(InWindow(adm[a].ipHash)) = RATE_LIMIT_PER_HOUR

\* C5: a request with a non-empty honeypot gets a success response with a
\* report identifier and no upload capability, creates no row, and its
\* identifier is the identifier of no stored report.
C5_HoneypotDiscards ==
  [][\A a \in AdmSlots :
       /\ (AdmissionSteps(a) /\ adm'[a].req.honeypot # "")
          => /\ adm'[a].pc = "done"
             /\ adm'[a].resp.status = 200
             /\ adm'[a].resp.report_id # NoId
             /\ adm'[a].resp.upload_urls = <<>>
             /\ reports' = reports
             /\ media' = media
       /\ (adm'[a].pc = "done" /\ adm'[a].req.honeypot # "")
          => adm'[a].resp.report_id \notin DOMAIN reports']_vars

\* A honeypot request with an invalid category and photo count was answered
\* while a report is stored.
C5_Witness ==
  \E a \in AdmSlots :
    /\ adm[a].pc = "done"
    /\ adm[a].req.honeypot # ""
    /\ adm[a].req.category = "other"
    /\ adm[a].resp.status = 200
    /\ DOMAIN reports # {}
    /\ adm[a].resp.report_id \notin DOMAIN reports

\* C6: a successful admission has persisted one new report in
\* pending_review, returns exactly photo_count capabilities in index order
\* with the paths <report_id>/<index>.jpg, and exactly photo_count
\* placeholder rows exist for the report.
C6_AdmissionComplete ==
  [][\A a \in AdmSlots :
       (adm[a].pc = "media" /\ adm'[a].pc = "done" /\ adm'[a].resp.status = 200)
       => LET id == adm'[a].resp.report_id
              urls == adm'[a].resp.upload_urls
              n2 == adm'[a].req.photo_count.v
          IN /\ id \in DOMAIN reports'
             /\ reports'[id].status = "pending_review"
             /\ 2 * Len(urls) = n2
             /\ \A k \in 1..Len(urls) : urls[k].path = StoragePath(id, k - 1)
             /\ {m \in media' : m.report_id = id} = Placeholders(id, n2)
             /\ 2 * Cardinality({m \in media' : m.report_id = id}) = n2]_vars

\* C7: once an admission has finished, its report exists with all its
\* placeholders, or neither the report nor any placeholder of it exists.
C7_ReportWithAllPlaceholdersOrNothing ==
  \A a \in AdmSlots :
    (adm[a].pc = "done" /\ adm[a].report_id # NoId)
    => \/ /\ adm[a].report_id \in DOMAIN reports
          /\ MediaOf(adm[a].report_id) = Placeholders(adm[a].report_id, adm[a].req.photo_count.v)
       \/ /\ adm[a].report_id \notin DOMAIN reports
          /\ MediaOf(adm[a].report_id) = {}

\* C8: when the issue of a capability fails the request ends with an error
\* response; a success response never carries fewer capabilities than photos.
C8_CapabilityFailureIsAnError ==
  \A a \in AdmSlots :
    /\ adm[a].signFailed
       => /\ adm[a].pc = "done"
          /\ adm[a].resp.status = 500
          /\ adm[a].resp.upload_urls = <<>>
    /\ (adm[a].pc = "done" /\ adm[a].resp.status = 200 /\ adm[a].req.honeypot = "")
       => 2 * Len(adm[a].resp.upload_urls) >= adm[a].req.photo_count.v

\* The second of two capabilities could not be issued.
C8_Witness ==
  \E a \in AdmSlots :
    /\ adm[a].signFailed
    /\ adm[a].i = 1
    /\ Len(adm[a].uploadUrls) = 1
    /\ adm[a].resp = jsonError("Failed to generate upload URL", 500)

(***************************************************************************)
(* Dispatch: guards, order and frame.                                      *)
(***************************************************************************)
\* The pcs of an invocation of submit-to-fcc that has not returned.
HandlerPcs == {"load", "approve", "download", "fetch", "revert", "mark_sent"}

\* Invocation o of submit-to-fcc returns in this step.
DispatchReturns(o) == ops[o].pc \in HandlerPcs /\ ops'[o].pc \notin HandlerPcs

\* C11: a dispatch of a rejected (or deleted) report fails, calls nothing
\* outside and leaves the status as it was; no operation changes the
\* status of a rejected or deleted report.
C11_RejectedIsNeverDispatched ==
  [][/\ \A o \in OpSlots :
          ( /\ ops[o].pc = "load"
            /\ ops'[o].pc # "load"
            /\ ops[o].report_id \in DOMAIN reports
            /\ reports[ops[o].report_id].status \in {"rejected", "deleted"} )
          => /\ DispatchReturns(o)
             /\ ops'[o].resp.status >= 400
             /\ reports' = reports
     /\ \A id \in DOMAIN reports \cap DOMAIN reports' :
          reports[id].status \in {"rejected", "deleted"}
            => reports'[id].status = reports[id].status]_vars

\* C12: an invocation enters its external calls (download, then the agency
\* endpoint) only by the step that writes approved_sending to the report.
C12_ApprovedSendingBeforeExternalCalls ==
  [][\A o \in OpSlots :
       /\ (ops'[o].pc = "download" /\ ops[o].pc # "download")
          => /\ ops[o].pc = "approve"
             /\ ops[o].report_id \in DOMAIN reports
                  => reports'[ops[o].report_id].status = "approved_sending"
       /\ (ops'[o].pc = "fetch" /\ ops[o].pc # "fetch")
          => ops[o].pc = "download"
       /\ (ops'[o].fcc # NoFccResponse /\ ops[o].fcc = NoFccResponse)
          => ops[o].pc = "fetch"]_vars

\* An invocation that found the report in pending_review is about to call
\* the agency, and the report is in approved_sending.
C12_Witness ==
  \E o \in OpSlots :
    /\ ops[o].pc = "fetch"
    /\ ops[o].viewStatus = "pending_review"
    /\ ops[o].photoBlob
    /\ ops[o].report_id \in DOMAIN reports
    /\ reports[ops[o].report_id].status = "approved_sending"

\* C13: an invocation that has no photo (no media row, or the download
\* failed) never calls the agency; it writes pending_review and the error
\* text that names the missing photo, and fails.
C13_NoPhotoRevertsWithoutCall ==
  [][\A o \in OpSlots :
       /\ (ops'[o].pc = "fetch" \/ ops'[o].fcc # NoFccResponse) => ops'[o].photoBlob
       /\ (ops[o].pc = "approve" /\ ops'[o].pc # "approve" /\ ~ops[o].hasMedia)
          => ops'[o].pc = "revert" /\ ~ops'[o].photoBlob
       /\ (ops[o].pc = "download" /\ ops'[o].pc # "download" /\ ~ops'[o].photoBlob)
          => ops'[o].pc = "revert"
       /\ (DispatchReturns(o) /\ ops[o].pc = "revert" /\ ~ops[o].photoBlob)
          => /\ ops'[o].resp.status = 400
             /\ ops'[o].fcc = NoFccResponse
             /\ ops[o].report_id \in DOMAIN reports
                  => /\ reports'[ops[o].report_id].status = "pending_review"
                     /\ reports'[ops[o].report_id].last_error
                          = Str("No photo available for FCC submission", 37)]_vars

\* The download of the photo of a report with a media row failed, and the
\* report is back in pending_review with the error text.
C13_Witness ==
  \E o \in OpSlots :
    /\ ops[o].pc = "ui_revert"
    /\ ops[o].hasMedia
    /\ ~ops[o].photoBlob
    /\ ops[o].resp = dispError("No photo available for submission", 400)
    /\ ops[o].report_id \in DOMAIN reports
    /\ reports[ops[o].report_id].status = "pending_review"
    /\ reports[ops[o].report_id].last_error.len > 0

\* C14: a dispatch without credentials or with an invalid token is answered
\* 401, one of a user who is not an admin 403, one for an identifier of no
\* report 404; none calls anything outside or changes a row.
C14_AuthAndNotFoundChangeNothing ==
  [][\A o \in OpSlots :
       /\ (ops[o].pc = "idle" /\ ops'[o].pc \notin {"idle", "ui_reload"}
             /\ ops'[o].auth # "admin")
          => /\ ops'[o].pc = "ui_revert"
             /\ ops'[o].resp.status = (IF ops'[o].auth = "forbidden" THEN 403 ELSE 401)
             /\ ops'[o].fcc = NoFccResponse
             /\ reports' = reports /\ media' = media
       /\ (ops[o].pc = "load" /\ ops'[o].pc # "load"
             /\ ops[o].report_id \notin DOMAIN reports)
          => /\ ops'[o].pc = "ui_revert"
             /\ ops'[o].resp.status = 404
             /\ ops'[o].fcc = NoFccResponse
             /\ reports' = reports /\ media' = media]_vars

\* A dispatch of a report that another session deleted was answered 404.
C14_Witness ==
  \E o \in OpSlots :
    /\ ops[o].pc = "ui_revert"
    /\ ops[o].auth = "admin"
    /\ ops[o].resp = dispError("Report not found", 404)
    /\ ops[o].fcc = NoFccResponse
    /\ ops[o].report_id \notin DOMAIN reports
    /\ nextUuid > ops[o].report_id

(***************************************************************************)
(* Reply ingestion.                                                        *)
(***************************************************************************)
\* Request r writes its reply to its report in this step, the report being
\* in the given status when the request read it and when it writes.
ReplyStored(r, status) ==
  /\ rep[r].pc = "update"
  /\ rep'[r].pc = "done"
  /\ rep'[r].resp.status = 200
  /\ rep[r].req.report_id \in DOMAIN reports
  /\ rep[r].status = status
  /\ reports[rep[r].req.report_id].status = status

\* The reply columns of the report of request r hold its reply after the
\* step: the text cut to 5000 characters, the sender, the time.
ReplyColumnsWritten(r) ==
  LET row == reports'[rep[r].req.report_id]
      req == rep[r].req
  IN /\ row.reply_text.tag = req.reply_text.tag
     /\ row.reply_text.len = (IF req.reply_text.len <= 5000 THEN req.reply_text.len ELSE 5000)
     /\ row.reply_from.len > 0
     /\ req.reply_from # NULL => row.reply_from.tag = req.reply_from.tag
     /\ row.replied_at = now

\* C15: a reply for a report in sent sets its status to replied and stores
\* the text, cut to at most 5000 characters, the sender and the time.
C15_ReplyToSentIsStored ==
  [][\A r \in RepSlots :
       ReplyStored(r, "sent")
       => /\ reports'[rep[r].req.report_id].status = "replied"
          /\ ReplyColumnsWritten(r)]_vars

\* A reply of 6000 characters to a report in sent is stored with 5000.
C15_Witness ==
  \E r \in RepSlots :
    /\ rep[r].pc = "done"
    /\ rep[r].resp.status = 200
    /\ rep[r].status = "sent"
    /\ rep[r].req.reply_text.len = 6000
    /\ rep[r].req.report_id \in DOMAIN reports
    /\ reports[rep[r].req.report_id].status = "replied"
    /\ reports[rep[r].req.report_id].reply_text = Str("reply again", 5000)

\* The statuses in which a reply leaves the status alone.
NotYetSent == {"pending_review", "approved_sending", "rejected", "deleted"}

C17_RepeatedReplyKeepsReplied ==
  [][\A r \in RepSlots :
       ReplyStored(r, "replied")
       => /\ reports'[rep[r].req.report_id].status = "replied"
          /\ ReplyColumnsWritten(r)]_vars

\* A second reply, with another text, to a report in replied was stored.
C17_Witness ==
  \E r \in RepSlots :
    /\ rep[r].pc = "done"
    /\ rep[r].resp.status = 200
    /\ rep[r].status = "replied"
    /\ rep[r].req.reply_text = Str("reply", 40)
    /\ rep[r].req.report_id \in DOMAIN reports
    /\ reports[rep[r].req.report_id].status = "replied"
    /\ reports[rep[r].req.report_id].reply_text = Str("reply", 40)
    /\ reports[rep[r].req.report_id].reply_from = Str("fcc", 30)

\* C18: a reply request with another secret than the configured one is
\* answered 401, one for an identifier of no report 404; neither creates
\* or changes a report.
C18_BadSecretAndUnknownReport ==
  [][\A r \in RepSlots :
       /\ (rep'[r] # rep[r] /\ rep'[r].req.secret # "good")
          => /\ rep'[r].pc = "done"
             /\ rep'[r].resp.status = 401
             /\ reports' = reports
       /\ (rep[r].pc = "fetch" /\ rep'[r].pc # "fetch"
             /\ rep[r].req.report_id \notin DOMAIN reports)
          => /\ rep'[r].pc = "done"
             /\ rep'[r].resp.status = 404
             /\ reports' = reports]_vars

\* A reply with a wrong secret for a report in sent was refused.
C18_Witness ==
  \E r \in RepSlots :
    /\ rep[r].pc = "done"
    /\ rep[r].req.secret = "bad"
    /\ rep[r].resp = replyResp(401, "Unauthorized")
    /\ rep[r].req.report_id \in DOMAIN reports
    /\ reports[rep[r].req.report_id].status = "sent"
    /\ reports[rep[r].req.report_id].reply_text = NULL

C20_CallsOneSecondApart ==
  \A i, j \in 1..Len(nominatimCalls) :
    i < j => nominatimCalls[j].at - nominatimCalls[i].at >= 1000

\* C21: a lookup with numeric lat and lon whose upstream call fails (the
\* fetch or the parsing throws, or the status is not OK) is answered 200
\* with an empty label; no lookup with numeric lat and lon gets an error
\* status.
C21_UpstreamFailureGivesEmptyLabel ==
  \A g \in GeoSlots :
    /\ ( /\ geo[g].nominatim # NoNominatimResponse
         /\ geo[g].nominatim.thrown \/ ~geo[g].nominatim.ok )
       => /\ geo[g].pc = "done"
          /\ geo[g].resp = jsonResp(<<>>, 200)
    /\ ( /\ geo[g].pc = "done"
         /\ geo[g].lat.type = "number"
         /\ geo[g].lon.type = "number" )
       => geo[g].resp.status = 200

\* Nominatim answered a lookup with a status that is not OK.
C21_Witness ==
  \E g \in GeoSlots :
    /\ geo[g].pc = "done"
    /\ geo[g].called
    /\ geo[g].nominatim = NominatimResponse(FALSE, FALSE, <<>>)
    /\ geo[g].resp = jsonResp(<<>>, 200)

(***************************************************************************)
(* Concurrent requests.                                                    *)
(***************************************************************************)
\* C22: the count and the insert of an admission are two steps with nothing
\* between them that holds other requests off: a request that has passed
\* the count is not refused for the limit at its insert, it inserts its
\* report or fails on the datastore error, however many reports of its
\* submitter are stored by then.
C22_InsertDoesNotCountAgain ==
  [][\A a \in AdmSlots :
       (adm[a].pc = "insert" /\ adm'[a].pc # "insert")
       => \/ /\ adm'[a].pc = "sign"
             /\ adm'[a].report_id \in DOMAIN reports' \ DOMAIN reports
          \/ /\ adm'[a].pc = "done"
             /\ adm'[a].resp.status = 500
             /\ reports' = reports]_vars

\* Two requests of one submitter both counted 9 reports and both were
\* admitted: 11 reports of the submitter lie in one hour.
C22_Witness ==
  /\ adm[1].pc = "done" /\ adm[2].pc = "done"
  /\ adm[1].resp.status = 200 /\ adm[2].resp.status = 200
  /\ adm[1].count = RATE_LIMIT_PER_HOUR - 1
  /\ adm[2].count = RATE_LIMIT_PER_HOUR - 1
  /\ adm[1].ipHash = adm[2].ipHash
  /\ adm[1].report_id # adm[2].report_id
  /\ Cardinality(InWindow(adm[1].ipHash)) = RATE_LIMIT_PER_HOUR + 1

\* C23: a dispatch is held off by no other dispatch: an invocation that
\* finds its report goes on to write approved_sending, whatever the status
\* and whatever other invocation is running for the report.
C23_DispatchIsNotHeldOff ==
  [][\A o \in OpSlots :
       ( /\ ops[o].pc = "load"
         /\ ops'[o].pc # "load"
         /\ ops[o].report_id \in DOMAIN reports )
       => ops'[o].pc = "approve"]_vars

\* Two invocations for one report, the second started while the first was
\* running, have both called the agency and both got its answer.
C23_Witness ==
  /\ ops[1].report_id = ops[2].report_id
  /\ ops[1].report_id \in DOMAIN reports
  /\ ops[1].pc \in {"revert", "mark_sent"}
  /\ ops[2].pc \in {"revert", "mark_sent"}
  /\ ops[1].fcc # NoFccResponse /\ ~ops[1].fcc.thrown
  /\ ops[2].fcc # NoFccResponse /\ ~ops[2].fcc.thrown
  /\ ops[2].viewStatus = "approved_sending"

(***************************************************************************)
(* Stored reports.                                                         *)
(***************************************************************************)
\* C24: every stored report has inside_service_area true, a stored distance
\* that is the haversine distance of its coordinates to the reference point
\* rounded to the nearest metre, and that distance is at most the radius.
C24_StoredDistanceAndFlag ==
  \A id \in DOMAIN reports :
    LET mm == haversineDistance(reports[id].lat, reports[id].lon, GIRONA_LAT, GIRONA_LON)
        metres == IF mm % 1000 >= 500 THEN mm \div 1000 + 1 ELSE mm \div 1000
    IN /\ reports[id].inside_service_area = TRUE
       /\ reports[id].distance_to_girona_m = metres
       /\ reports[id].distance_to_girona_m <= SERVICE_RADIUS_M
       /\ mm <= SERVICE_RADIUS_M * 1000

\* A report 4999.7 m from the reference point is stored with 5000 m.
C24_Witness ==
  \E id \in DOMAIN reports :
    /\ reports[id].lat = 42024363
    /\ reports[id].distance_to_girona_m = SERVICE_RADIUS_M
    /\ reports[id].inside_service_area = TRUE

\* C25: a request with an empty honeypot and a latitude outside -90..90, a
\* longitude outside -180..180, a photo count outside 1..5 or a category
\* other than waste and litter is answered 400 in its first step, before
\* any datastore call; every 400 and 429 answer leaves the report and media
\* rows as they were.
C25_ValidationBeforeAnyWrite ==
  [][\A a \in AdmSlots :
       /\ ( /\ adm[a].pc \in {"idle", "done"}
            /\ AdmissionSteps(a)
            /\ adm'[a].req.honeypot = ""
            /\ ~ValidFields(adm'[a].req) )
          => /\ adm'[a].pc = "done"
             /\ adm'[a].resp.status = 400
             /\ reports' = reports /\ media' = media /\ nextUuid' = nextUuid
       /\ ( /\ AdmissionSteps(a)
            /\ adm'[a].pc = "done"
            /\ adm'[a].resp.status \in {400, 429} )
          => /\ adm'[a].report_id = NoId
             /\ reports' = reports /\ media' = media]_vars

\* A request with another category was refused while the submitter's
\* reports of the hour had reached the limit.
C25_Witness ==
  \E a \in AdmSlots :
    /\ adm[a].pc = "done"
    /\ adm[a].req.honeypot = ""
    /\ adm[a].req.category \notin {"waste", "litter"}
    /\ adm[a].resp = jsonError("category must be \"waste\" or \"litter\"", 400)
    /\ Cardinality(DOMAIN reports) >= RATE_LIMIT_PER_HOUR

\* C26: a report that a dispatch moved to sent has a non-null
\* fcc_incident_id.
C26_SentHasIncidentId ==
  \A id \in DOMAIN reports :
    reports[id].status = "sent" => reports[id].fcc_incident_id # NULL

\* Whether an address reads info+<id>@gironaneta.cat, letters in either
\* case, for a non-empty id of hexadecimal digits and hyphens.
IsReplyAddress(to) ==
  LET c == [k \in 1..Len(to.chars) |-> Lower(to.chars[k])]
      pre == <<105, 110, 102, 111, 43>>
      suf == <<64, 103, 105, 114, 111, 110, 97, 110, 101, 116, 97, 46, 99, 97, 116>>
  IN /\ More(to) = 0
     /\ \E n \in 1..Len(c) :
          /\ Len(c) = Len(pre) + n + Len(suf)
          /\ SubSeq(c, 1, Len(pre)) = pre
          /\ SubSeq(c, Len(pre) + n + 1, Len(c)) = suf
          /\ \A k \in (Len(pre) + 1)..(Len(pre) + n) :
                c[k] \in (48..57) \cup (97..102) \cup {45}

C28_StoredReplyIsCapped ==
  \A id \in DOMAIN reports :
    /\ reports[id].reply_text.len <= 5000
    /\ reports[id].reply_from.len <= 200

\* A message with a body of 6003 characters and a sender of 300 was stored
\* for report 1.
C28_Witness ==
  /\ 1 \in DOMAIN reports
  /\ reports[1].reply_text = substring(LongBody, 0, 5000)
  /\ reports[1].reply_text.len = 5000
  /\ reports[1].reply_from = substring(LongSender, 0, 200)
  /\ reports[1].reply_from.len = 200
  /\ \E w \in WrkSlots :
       /\ wrk[w].pc = "done"
       /\ wrk[w].res = 200
       /\ wrk[w].message.body.len > 5000
       /\ wrk[w].message.from.len > 200

\* The digits of base 16 in the order of their values: 0-9, a-f.
HexDigits == <<48, 49, 50, 51, 52, 53, 54, 55, 56, 57, 97, 98, 99, 100, 101, 102>>

IsHexDigit(c) == \E v \in 1..16 : HexDigits[v] = Lower(c)

HexDigitValue(c) == (CHOOSE v \in 1..16 : HexDigits[v] = Lower(c)) - 1

\* The decoding as the claim words it, read from left to right from index
\* i: a soft line break gives nothing, an escape its byte, any other
\* character itself.
RECURSIVE QpAsStated(_, _)
QpAsStated(c, i) ==
  IF i > Len(c) THEN <<>>
  ELSE IF c[i] = 61 /\ At(c, i + 1) = 10 THEN QpAsStated(c, i + 2)
  ELSE IF c[i] = 61 /\ At(c, i + 1) = 13 /\ At(c, i + 2) = 10 THEN QpAsStated(c, i + 3)
  ELSE IF c[i] = 61 /\ IsHexDigit(At(c, i + 1)) /\ IsHexDigit(At(c, i + 2))
  THEN <<16 * HexDigitValue(c[i + 1]) + HexDigitValue(c[i + 2])>> \o QpAsStated(c, i + 3)
  ELSE <<c[i]>> \o QpAsStated(c, i + 1)

\* Whether a soft line break of c directly follows an equals sign, or an
\* equals sign and one hexadecimal digit.
SoftBreakInsideEscape(c) ==
  \E i \in 1..Len(c) :
    /\ c[i] = 61
    /\ At(c, i + 1) = 10 \/ (At(c, i + 1) = 13 /\ At(c, i + 2) = 10)
    /\ At(c, i - 1) = 61 \/ (At(c, i - 2) = 61 /\ IsHexDigit(At(c, i - 1)))

\* C29 as stated: the decoded text is the text without its soft line breaks,
\* with the byte XX for every escape =XX, every other character kept in
\* its place.
C29_DecodesAsStated ==
  qp.pc = "out" => qp.out = Chars(QpAsStated(qp.str.chars, 1), 0)

\* C29: the same for every text in which no soft line break directly
\* follows an equals sign or an equals sign and one hexadecimal digit.
C29_DecodesAsStatedUnlessSplit ==
  (qp.pc = "out" /\ ~SoftBreakInsideEscape(qp.str.chars))
    => qp.out = Chars(QpAsStated(qp.str.chars, 1), 0)

\* The text = LF = 4 c, a soft line break and the escape of L, was decoded
\* to L.
C29_Witness ==
  /\ qp.pc = "out"
  /\ qp.str.chars = <<61, 10, 61, 52, 99>>
  /\ qp.out.chars = <<76>>

\* The worker has taken message m, addressed to report 1, while that
\* report is sent.
DeliveredWhileSent(m) ==
  /\ \E w \in WrkSlots : wrk[w].pc = "read" /\ wrk[w].message = m
  /\ 1 \in DOMAIN reports
  /\ reports[1].status = "sent"

\* Report 1 is replied and holds the text of m, cut at 5000 characters.
StoredAsReply(m) ==
  /\ 1 \in DOMAIN reports
  /\ reports[1].status = "replied"
  /\ reports[1].reply_text = substring(m.body, 0, 5000)

\* C30: when the worker and receive-reply run to completion, every message
\* delivered to the reply address of a sent report leads to that report
\* being replied with the decoded body of the message as its reply text.
C30_EveryReplyIsStored ==
  \A m \in RepliesToReport : DeliveredWhileSent(m) ~> StoredAsReply(m)

(***************************************************************************)
(* C31: every last_error stored in a report has a bounded length: whatever *)
(* the size of the agency's response, the text written on a failed         *)
(* dispatch is no longer than the prefix "FCC error (status): " and the    *)
(* 200 characters kept of the response.                                    *)
(***************************************************************************)
C31_LastErrorIsBounded ==
  \A id \in DOMAIN reports :
    reports[id].last_error # NULL => reports[id].last_error.len <= 17 + LastErrorCap

(***************************************************************************)
(* C32: media rows are owned by their report: in every reachable state     *)
(* every report_media row references a report that exists, so the rows of  *)
(* a deleted report are gone with it and none is added for it afterwards.  *)
(***************************************************************************)
C32_MediaRowsHaveTheirReport ==
  \A m \in media : m.report_id \in DOMAIN reports

\* An admission has handed out its upload URLs, and its report, media rows
\* included, has been deleted.
C32_Witness ==
  \E a \in AdmSlots :
    /\ adm[a].pc = "done"
    /\ adm[a].resp.status = 200
    /\ Len(adm[a].uploadUrls) > 0
    /\ adm[a].report_id \notin DOMAIN reports
    /\ \A m \in media : m.report_id # adm[a].report_id

\* What a caller can tell of a response of create-report apart from the
\* value of the identifier: status, error text, whether there is an
\* identifier, and the capability list.
ResponseShape(resp) ==
  [status |-> resp.status, error |-> resp.error,
   has_id |-> resp.report_id # NoId, upload_urls |-> resp.upload_urls]

\* Slot a holds the answer to a request with a non-empty honeypot.
HoneypotAnswered(a) == adm[a].pc = "done" /\ adm[a].req.honeypot # ""

(***************************************************************************)
(* C33: the response to an admission request with a non-empty honeypot     *)
(* depends on nothing else: it is the success envelope with an identifier  *)
(* that was not handed out before and names no report, and an empty        *)
(* capability list, and it has the status and the shape of the answer to   *)
(* any other such request, whatever the fields and the caller address of   *)
(* the two requests and whatever the store held when each was answered.    *)
(***************************************************************************)
C33_HoneypotAnswersAreAlike ==
  [][\A a \in AdmSlots :
       (AdmissionSteps(a) /\ adm'[a].req.honeypot # "")
       => /\ ResponseShape(adm'[a].resp) = ResponseShape(jsonOk(nextUuid, <<>>))
          /\ adm'[a].resp.report_id \notin DOMAIN reports'
          /\ \A b \in AdmSlots \ {a} :
               HoneypotAnswered(b)
               => /\ ResponseShape(adm'[a].resp) = ResponseShape(adm[b].resp)
                  /\ adm'[a].resp.report_id # adm[b].resp.report_id]_vars

\* Two honeypot requests that differ in coordinates, category, photo count
\* and caller address have been answered, the one of the submitter whose
\* rate limit is exhausted after the tenth report of the hour was stored.
C33_Witness ==
  /\ HoneypotAnswered(1) /\ HoneypotAnswered(2)
  /\ adm[1].req.xff = BaseReq.xff
  /\ adm[2].req.category = "other"
  /\ adm[2].req.xff = ""
  /\ RateLimited(RecentCount(hashString(clientIp(adm[1].req.xff, adm[1].req.cf)), now))
  /\ \A id \in DOMAIN reports : id < adm[1].resp.report_id
  /\ adm[1].resp.status = 200 /\ adm[2].resp.status = 200

\* The invocation of slot a has written sent for a report and returned,
\* while the invocation of slot b for the same report, which wrote
\* approved_sending before that, is still running.
SentWhileOtherRuns(a, b) ==
  /\ a # b
  /\ ops[a].pc = "ui_reload" /\ ops[a].resp.success
  /\ ops[b].report_id = ops[a].report_id
  /\ ops[b].pc \in {"download", "fetch", "revert", "mark_sent"}
  /\ ops[a].report_id \in DOMAIN reports
  /\ reports[ops[a].report_id].status = "sent"

(***************************************************************************)
(* C34: a successful dispatch is never lost: when an invocation has        *)
(* written sent for a report while another invocation for it was running,  *)
(* and that other invocation returns with no dispatch invocation for the   *)
(* report left running, the report is in sent or replied.                  *)
(***************************************************************************)
C34_SentIsNotLost ==
  [][\A a, b \in OpSlots :
       ( /\ SentWhileOtherRuns(a, b)
         /\ DispatchReturns(b)
         /\ \A o \in OpSlots :
              ops'[o].report_id = ops[b].report_id => ops'[o].pc \notin HandlerPcs
         /\ ops[b].report_id \in DOMAIN reports' )
       => reports'[ops[b].report_id].status \in {"sent", "replied"}]_vars

(***************************************************************************)
(* C35: the status written by receive-reply fits the status at the time of *)
(* the write: whatever operators and dispatch invocations do between the   *)
(* handler's select and its update, the update leaves a report in replied  *)
(* only if the report was in sent or replied immediately before it.        *)
(***************************************************************************)
C35_RepliedOnlyFromSent ==
  [][\A r \in RepSlots :
       ( /\ rep[r].pc = "update"
         /\ rep'[r].pc = "done"
         /\ rep'[r].resp.status = 200
         /\ rep[r].req.report_id \in DOMAIN reports
         /\ reports'[rep[r].req.report_id].status = "replied" )
       => reports[rep[r].req.report_id].status \in {"sent", "replied"}]_vars

(***************************************************************************)
(* C36: the page's revert after a failed send request only undoes a        *)
(* dispatch in flight: it changes the status of a report only when the     *)
(* stored status is approved_sending, and moves no report that is sent,    *)
(* replied or rejected back to pending_review.                             *)
(***************************************************************************)
C36_UiRevertOnlyFromApprovedSending ==
  [][\A o \in OpSlots :
       ( /\ ops[o].pc = "ui_revert"
         /\ ops'[o].pc # "ui_revert"
         /\ ops[o].report_id \in DOMAIN reports
         /\ reports'[ops[o].report_id].status # reports[ops[o].report_id].status )
       => reports[ops[o].report_id].status = "approved_sending"]_vars

(***************************************************************************)
(* C37: the rate limit fails open: when the count query yields no value    *)
(* the request is not refused for rate limiting and goes on to the insert, *)
(* and the insert stores the report, however many reports of the submitter *)
(* the trailing hour holds.                                                *)
(***************************************************************************)
C37_RateLimitFailsOpen ==
  [][\A a \in AdmSlots :
       /\ (CountStep(a) /\ adm'[a].count = NoCount)
          => /\ adm'[a].pc = "insert"
             /\ adm'[a].resp = NoResp
       /\ (adm[a].pc = "insert" /\ adm[a].count = NoCount /\ adm'[a].pc = "sign")
          => /\ adm'[a].report_id \notin DOMAIN reports
             /\ adm'[a].report_id \in DOMAIN reports'
             /\ reports'[adm'[a].report_id].ip_hash = adm[a].ipHash]_vars

\* A request whose count query failed was admitted although the submitter
\* had reached the limit: the trailing hour now holds more than the limit.
C37_Witness ==
  \E a \in AdmSlots :
    /\ adm[a].pc = "done"
    /\ adm[a].resp.status = 200
    /\ adm[a].count = NoCount
    /\ adm[a].report_id \in DOMAIN reports
    /\ Cardinality(InWindow(adm[a].ipHash)) > RATE_LIMIT_PER_HOUR

(***************************************************************************)
(* C38: reply correlation round-trips: for every report identifier (a UUID *)
(* of lower-case hex digits and hyphens) the pattern of the email worker,  *)
(* applied to the reply address that the dispatch builds for the report,   *)
(* matches and yields exactly that identifier.                             *)
(***************************************************************************)
C38_ReplyAddressRoundTrips ==
  \A w \in WrkSlots :
    wrk[w].pc # "idle"
    => /\ wrk[w].pc = "read"
       /\ ~wrk[w].rejected
       /\ wrk[w].reportId.len = Len(IdTemplate)
       /\ \A i \in 0..(MaxIdDigits - 1) : CharAt(wrk[w].reportId, i) \in HexLower
       /\ wrk[w].message.to = ReplyTo(wrk[w].reportId)

\* The worker has taken the identifier fff... out of its reply address.
C38_Witness ==
  \E w \in WrkSlots :
    /\ wrk[w].pc = "read"
    /\ CharAt(wrk[w].reportId, 0) = 102
    /\ CharAt(wrk[w].reportId, MaxIdDigits - 1) = 102
    /\ wrk[w].reportId.len = 36
    /\ wrk[w].message.to = ReplyTo(wrk[w].reportId)

\* The rounded key of the lookup in slot g.
GeoKey(g) == <<geo[g].roundedLat, geo[g].roundedLon>>

\* The upstream call of slot g gave no label: it failed, or its answer has
\* no display name or one that is empty after trimming.
NoLabelFrom(r) == r.thrown \/ ~r.ok \/ addressLabel(r.display_name) = <<>>

(***************************************************************************)
(* C39: every geocode cache entry holds a non-empty address label: a       *)
(* lookup whose upstream call fails or gives no display name ends without  *)
(* writing to the cache, entries are written only with the non-empty label *)
(* of an upstream answer, and a lookup that reads the cache while its key  *)
(* is not stored is a miss that goes on to an upstream call.               *)
(***************************************************************************)
C39_CacheHoldsOnlyLabels ==
  [][/\ \A key \in DOMAIN geocode_cache' : geocode_cache'[key] # <<>>
     /\ \A g \in GeoSlots :
          /\ ( /\ geo[g].pc = "fetch"
               /\ geo'[g].pc # "fetch"
               /\ NoLabelFrom(geo'[g].nominatim) )
             => /\ geo'[g].pc = "done"
                /\ geo'[g].resp = jsonResp(<<>>, 200)
                /\ geocode_cache' = geocode_cache
          /\ ( /\ geo[g].pc = "cache"
               /\ geo'[g].pc # "cache"
               /\ GeoKey(g) \notin DOMAIN geocode_cache )
             => /\ geo'[g].pc \in {"sleep", "fetch"}
                /\ geo'[g].pc = "fetch" => nominatimCalls' = CallNominatim(g)
     /\ geocode_cache' # geocode_cache
        => \E g \in GeoSlots :
             /\ geo[g].pc = "upsert"
             /\ geo[g].label # <<>>
             /\ geo[g].label = addressLabel(geo[g].nominatim.display_name)
             /\ geocode_cache' = Extend(geocode_cache, GeoKey(g), geo[g].label)]_vars

\* After a lookup whose upstream answer had no usable display name, a later
\* lookup of the same key has missed the cache and called upstream again.
C39_Witness ==
  \E g, h \in GeoSlots :
    /\ geo[g].pc = "done"
    /\ geo[g].called
    /\ geo[g].nominatim = NominatimResponse(FALSE, TRUE, <<" ">>)
    /\ geo[g].resp = jsonResp(<<>>, 200)
    /\ geo[h].pc = "fetch"
    /\ GeoKey(h) = GeoKey(g)
    /\ GeoKey(g) \notin DOMAIN geocode_cache
    /\ Len(nominatimCalls) = 2
    /\ nominatimCalls[1].key = GeoKey(g)
    /\ nominatimCalls[2].key = GeoKey(g)

(***************************************************************************)
(* C40: after any sequence of saveLocalReport calls the stored list holds  *)
(* at most 50 reports, newest first: each call that stores puts the new    *)
(* report at the front, keeps the others in their order, and drops reports *)
(* only from the end and only as far as the list would exceed 50.          *)
(***************************************************************************)
C40_LocalListNewestFirstAtMost50 ==
  [][LET old == getLocalReports
         new == JSONparse(localStorage')
     IN /\ Len(new) <= 50
        /\ \A i \in 1..(Len(new) - 1) :
             new[i].id > new[i + 1].id /\ new[i].created_at >= new[i + 1].created_at
        /\ localStorage' # localStorage
           => /\ new[1] = LocalReport(localSaves + 1, now)
              /\ Len(new) = IF Len(old) + 1 > 50 THEN 50 ELSE Len(old) + 1
              /\ \A i \in 2..Len(new) : new[i] = old[i - 1]]_vars

\* The list holds 50 reports after more than 50 were saved: the newest is
\* at the front and the oldest ones are gone.
C40_Witness ==
  /\ localSaves > MAX_STORED + 1
  /\ Len(getLocalReports) = MAX_STORED
  /\ getLocalReports[1].id = localSaves
  /\ getLocalReports[MAX_STORED].id > 1
  /\ getLocalReports[1].created_at > getLocalReports[MAX_STORED].created_at

====
